---- MODULE Spec2Model ----
(***************************************************************************)
(* eatr: the controller that renews AWS ECR image pull secrets in the      *)
(* namespaces of a cluster (controller.go), with the orchestrator's object *)
(* store, the work queue and the registry token client it talks to.        *)
(***************************************************************************)
EXTENDS Integers, Sequences, FiniteSets, TLC

(***************************************************************************)
(* Bounds of the model.                                                    *)
(***************************************************************************)
\* ticks of AuthenticationTokenRenewalInterval that may fire
MaxTicks == 1
\* disturbances: changes the orchestrator's users make to namespaces and credentials,
\* and calls to the orchestrator API or to ECR that fail with a transient error
MaxDisturbances == 1

\* the sweeps of all namespaces run one after the other on a cluster left alone
MaxRenews == 2

(***************************************************************************)
(* Constants of the program and the fixture of its tests.                  *)
(***************************************************************************)
allNamespacesKey == "**all-ns**"
secretDataTemplate(endpoint, password) ==
    "{ \"auths\": { \"" \o endpoint \o "\": { \"auth\": \"" \o password \o "\" } } }"
defaultAWSCredentialsSecretPrefix == "eatr-aws-credentials"
defaultHostNamespace == "ci-cd"
AWSCredentialsSecretPrefix == defaultAWSCredentialsSecretPrefix
HostNamespace == defaultHostNamespace

ecr1 == "123456789012.dkr.ecr.eu-west-1.amazonaws.com"
ecr2 == "444456781111.dkr.ecr.us-east-1.amazonaws.com"
ns1 == "ns-1"
ns2 == "ns-2"

NamespaceActive == "Active"
NamespaceTerminating == "Terminating"
SecretTypeDockerConfigJson == "kubernetes.io/dockerconfigjson"
SecretTypeOpaque == "Opaque"
DockerConfigJsonKey == ".dockerconfigjson"

\* the label keys of the fixture; the first two match namespaceSecretLabelKeyPattern
LabelKeys == {ecr1, ecr2, "env"}
\* namespaceSecretLabelKeyRegEx.MatchString over the label keys of the fixture:
\* twelve digits, .dkr.ecr., a region, .amazonaws.com
MatchString(k) == k \in {ecr1, ecr2}
RegistryKeys == {k \in LabelKeys : MatchString(k)}

\* the namespaces the cluster has at start, and the one created later
SeedNames == {HostNamespace, ns1}
NsNames == SeedNames \cup {ns2}

\* label maps of the fixture
NoLabels == [k \in {} |-> "true"]
LabelsEcr1True == [k \in {ecr1, "env"} |-> IF k = ecr1 THEN "true" ELSE "dev"]
LabelsEcr1False == [k \in {ecr1} |-> "false"]
LabelsBothTrue == [k \in {ecr1, ecr2} |-> "true"]
LabelsMixed == [k \in {ecr1, ecr2} |-> IF k = ecr1 THEN "false" ELSE "true"]
LabelsEcr2True == [k \in {ecr2} |-> "true"]
\* the labels a namespace is created with or changed to
LabelChoices == {NoLabels, LabelsEcr1False, LabelsEcr2True}


(***************************************************************************)
(* Errors: nil, or the kind of the failure with the message wrapped around *)
(* it by the function that returns it.                                     *)
(***************************************************************************)
nil == [kind |-> "nil", msg |-> ""]
NotFound == [kind |-> "NotFound", msg |-> ""]
AlreadyExists == [kind |-> "AlreadyExists", msg |-> ""]
Transient == [kind |-> "Transient", msg |-> ""]
Canceled == [kind |-> "Canceled", msg |-> ""]
Wrap(err, msg) == [kind |-> err.kind, msg |-> msg]
\* variant: a not-found error is not told from the other errors
IsNotFoundNever(err) == FALSE
IsNotFound(err) == err.kind = "NotFound"

(***************************************************************************)
(* State.                                                                  *)
(***************************************************************************)
VARIABLES
    namespaces,             \* the orchestrator's namespaces, in list order
    secrets,                \* the orchestrator's secrets, of every namespace
    k8sStats,               \* what the accessor has been asked to write
    ecrCalls,               \* number of tokens ECR has issued
    Queue,                  \* the work queue of the controller
    stop,                   \* the stop channel is closed
    HasSynced,              \* the informer's cache has synced
    run,                    \* position of Run
    wk,                     \* the queue consumer goroutines and their locals
    SecretsCounter,         \* secrets_created_total, by (namespace, name)
    SecretRenewalsCounter,  \* secret_renewals_total
    hist                    \* what has happened so far (events, ticks, faults)

vars == <<namespaces, secrets, k8sStats, ecrCalls, Queue, stop, HasSynced, run, wk,
          SecretsCounter, SecretRenewalsCounter, hist>>

\* the goroutines that may run runQueueConsumerLoop
Workers == {"w1", "w2"}
QueueKeys == NsNames \cup {allNamespacesKey}
Pairs == NsNames \X RegistryKeys

(***************************************************************************)
(* The cluster object accessor (k8sInterface) over the orchestrator's      *)
(* store.                                                                  *)
(***************************************************************************)
Range(f) == {f[i] : i \in DOMAIN f}
NamespaceExists(nsl, name) == \E i \in DOMAIN nsl : nsl[i].Name = name
NamespaceNamed(nsl, name) == CHOOSE n \in Range(nsl) : n.Name = name

\* variant: no namespace and no error for a name that is not there
GetNamespaceMissingAsNone(nsl, name) ==
    IF NamespaceExists(nsl, name)
    THEN [ns |-> <<NamespaceNamed(nsl, name)>>, err |-> nil]
    ELSE [ns |-> <<>>, err |-> nil]

\* variant: the namespace is reported without its labels
GetNamespaceUnlabelled(nsl, name) ==
    IF NamespaceExists(nsl, name)
    THEN [ns |-> <<[NamespaceNamed(nsl, name) EXCEPT !.Labels = [k \in {} |-> "true"]]>>, err |-> nil]
    ELSE [ns |-> <<>>, err |-> NotFound]

\* GetNamespace: the namespace, or a not-found error
GetNamespace(nsl, name) ==
    IF NamespaceExists(nsl, name)
    THEN [ns |-> <<NamespaceNamed(nsl, name)>>, err |-> nil]
    ELSE [ns |-> <<>>, err |-> NotFound]

\* GetNamespaces: every namespace, of every phase
GetNamespaces(nsl) == [list |-> nsl, err |-> nil]

SecretsNamed(store, ns, name) == {s \in store : s.Namespace = ns /\ s.Name = name}

\* GetSecret: found, or a not-found error
GetSecret(store, ns, name) ==
    IF SecretsNamed(store, ns, name) = {}
    THEN [found |-> {}, err |-> NotFound]
    ELSE [found |-> SecretsNamed(store, ns, name), err |-> nil]

\* CreateSecret: needs the namespace, refuses a name that is taken
CreateSecret(store, nsl, ns, s) ==
    IF ~NamespaceExists(nsl, ns) THEN [secrets |-> store, err |-> NotFound]
    ELSE IF SecretsNamed(store, ns, s.Name) # {} THEN [secrets |-> store, err |-> AlreadyExists]
    ELSE [secrets |-> store \cup {[s EXCEPT !.Namespace = ns]}, err |-> nil]

\* variant: the update removes the secret and stores nothing in its place
UpdateSecretDropping(store, nsl, ns, s) ==
    IF SecretsNamed(store, ns, s.Name) = {} THEN [secrets |-> store, err |-> NotFound]
    ELSE [secrets |-> store \ SecretsNamed(store, ns, s.Name), err |-> nil]

\* UpdateSecret: replaces the secret of that name, not-found when there is none
UpdateSecret(store, nsl, ns, s) ==
    IF SecretsNamed(store, ns, s.Name) = {} THEN [secrets |-> store, err |-> NotFound]
    ELSE [secrets |-> (store \ SecretsNamed(store, ns, s.Name)) \cup {[s EXCEPT !.Namespace = ns]},
          err |-> nil]

(***************************************************************************)
(* The registry token client.                                              *)
(***************************************************************************)
\* the context the controller hands to the registry token client:
\* context.Background(), which is never done, whatever becomes of stop
Background == [done |-> FALSE]
ctxDone(ctx) == ctx.done

\* the registry host ECR answers for: that of the account the access key
\* belongs to, in the region asked for; the token is that of the time n of the
\* call, and the registry gives the same answer to the same request at the same time
AccountOf(id) == IF id = "AKIA-444456781111" THEN "444456781111" ELSE "123456789012"
GetAuthToken(region, id, secret, n) ==
    [ProxyEndpoint |-> "https://" \o AccountOf(id) \o ".dkr.ecr." \o region \o ".amazonaws.com",
     AuthorizationToken |-> "token-" \o ToString(n)]

(***************************************************************************)
(* The work queue (workqueue.Type): queue, dirty and processing sets.      *)
(***************************************************************************)
\* variant: a queue that is shutting down still takes the item
QueueAddWhileShuttingDown(q, item) ==
    IF item \in q.dirty THEN q
    ELSE IF item \in q.processing THEN [q EXCEPT !.dirty = @ \cup {item}]
    ELSE [q EXCEPT !.dirty = @ \cup {item}, !.queue = Append(@, item)]

\* variant: the item is put at the head of the queue
QueueAddFront(q, item) ==
    IF q.shuttingDown \/ item \in q.dirty THEN q
    ELSE IF item \in q.processing THEN [q EXCEPT !.dirty = @ \cup {item}]
    ELSE [q EXCEPT !.dirty = @ \cup {item}, !.queue = <<item>> \o @]

QueueAdd(q, item) ==
    IF q.shuttingDown \/ item \in q.dirty THEN q
    ELSE IF item \in q.processing THEN [q EXCEPT !.dirty = @ \cup {item}]
    ELSE [q EXCEPT !.dirty = @ \cup {item}, !.queue = Append(@, item)]

QueueGet(q) ==
    [q EXCEPT !.queue = Tail(@),
              !.processing = @ \cup {Head(q.queue)},
              !.dirty = @ \ {Head(q.queue)}]

\* variant: Done forgets that the item was added while it was being processed
QueueDoneForgetting(q, item) == [q EXCEPT !.processing = @ \ {item}, !.dirty = @ \ {item}]

QueueDone(q, item) ==
    IF item \in q.dirty
    THEN [q EXCEPT !.processing = @ \ {item}, !.queue = Append(@, item)]
    ELSE [q EXCEPT !.processing = @ \ {item}]

\* variant: the queue is left open
QueueShutDownNot(q) == q
QueueShutDown(q) == [q EXCEPT !.shuttingDown = TRUE]

(***************************************************************************)
(* The pure parts of the controller.                                       *)
(***************************************************************************)
EmptyMap == [k \in {} |-> nil]
DataField(sec, key) == IF key \in DOMAIN sec.Data THEN sec.Data[key] ELSE ""

\* the test the controller applies to a label: the key matches the registry
\* pattern and the value is "true"
\* variant: the value of the label is not looked at
IsSecretLabelAnyValue(k, v) == MatchString(k)
IsSecretLabel(k, v) == MatchString(k) /\ v = "true"
SecretLabels(ns) == {k \in DOMAIN ns.Labels : IsSecretLabel(k, ns.Labels[k])}

\* variant: the phase of the namespace is not looked at
IsToProcessAnyPhase(ns) == SecretLabels(ns) # {}

\* a namespace getNamespacesToProcess keeps
IsToProcess(ns) == ns.Phase = NamespaceActive /\ SecretLabels(ns) # {}

\* variant: every key is handled as the key of all namespaces
getNamespacesToProcessAll(nsl, key, failing) ==
    IF failing
    THEN [nss |-> <<>>, list |-> <<>>, call |-> "GetNamespaces",
          err |-> Wrap(Transient, "get namespaces failed")]
    ELSE [nss |-> SelectSeq(nsl, IsToProcess), list |-> nsl, call |-> "GetNamespaces", err |-> nil]

\* variant: the namespace of a single key is taken whatever its phase
getNamespacesToProcessOneAnyPhase(nsl, key, failing) ==
    LET got == IF key = allNamespacesKey
               THEN LET r == GetNamespaces(nsl) IN [list |-> r.list, err |-> r.err]
               ELSE LET r == GetNamespace(nsl, key) IN [list |-> r.ns, err |-> r.err]
        err == IF failing THEN Transient ELSE got.err
        call == IF key = allNamespacesKey THEN "GetNamespaces" ELSE "GetNamespace"
    IN IF err # nil
       THEN [nss |-> <<>>, list |-> <<>>, call |-> call,
             err |-> Wrap(err, IF key = allNamespacesKey THEN "get namespaces failed"
                               ELSE "get namespace failed")]
       ELSE [nss |-> IF key = allNamespacesKey THEN SelectSeq(got.list, IsToProcess)
                     ELSE SelectSeq(got.list, IsToProcessAnyPhase),
             list |-> got.list, call |-> call, err |-> nil]

\* variant: the namespace of a key is looked up in the list of all namespaces
getNamespacesToProcessByList(nsl, key, failing) ==
    LET r == GetNamespaces(nsl)
        Mine(ns) == key = allNamespacesKey \/ ns.Name = key
        list == SelectSeq(r.list, Mine)
        err == IF failing THEN Transient
               ELSE IF Len(list) = 0 /\ key # allNamespacesKey THEN NotFound ELSE r.err
    IN IF err # nil
       THEN [nss |-> <<>>, list |-> <<>>, call |-> "GetNamespaces",
             err |-> Wrap(err, "get namespaces failed")]
       ELSE [nss |-> SelectSeq(list, IsToProcess), list |-> list, call |-> "GetNamespaces",
             err |-> nil]

\* variant: a namespace is taken once for each of its secret labels
getNamespacesToProcessPerLabel(nsl, key, failing) ==
    LET got == IF key = allNamespacesKey
               THEN LET r == GetNamespaces(nsl) IN [list |-> r.list, err |-> r.err]
               ELSE LET r == GetNamespace(nsl, key) IN [list |-> r.ns, err |-> r.err]
        err == IF failing THEN Transient ELSE got.err
        call == IF key = allNamespacesKey THEN "GetNamespaces" ELSE "GetNamespace"
        Rep(i) == IF i <= Len(got.list) /\ IsToProcess(got.list[i])
                  THEN IF Cardinality(SecretLabels(got.list[i])) > 1
                       THEN <<got.list[i], got.list[i]>> ELSE <<got.list[i]>>
                  ELSE <<>>
    IN IF err # nil
       THEN [nss |-> <<>>, list |-> <<>>, call |-> call,
             err |-> Wrap(err, IF key = allNamespacesKey THEN "get namespaces failed"
                               ELSE "get namespace failed")]
       ELSE [nss |-> Rep(1) \o Rep(2) \o Rep(3), list |-> got.list, call |-> call, err |-> nil]

\* getNamespacesToProcess: the namespaces of the key that are active and carry a
\* secret label; list is what the accessor returned
getNamespacesToProcess(nsl, key, failing) ==
    LET got == IF key = allNamespacesKey
               THEN LET r == GetNamespaces(nsl) IN [list |-> r.list, err |-> r.err]
               ELSE LET r == GetNamespace(nsl, key) IN [list |-> r.ns, err |-> r.err]
        err == IF failing THEN Transient ELSE got.err
        call == IF key = allNamespacesKey THEN "GetNamespaces" ELSE "GetNamespace"
    IN IF err # nil
       THEN [nss |-> <<>>, list |-> <<>>, call |-> call,
             err |-> Wrap(err, IF key = allNamespacesKey THEN "get namespaces failed"
                               ELSE "get namespace failed")]
       ELSE [nss |-> SelectSeq(got.list, IsToProcess), list |-> got.list, call |-> call,
             err |-> nil]

\* sets.String.List(): the names in lexical order
SortedKeys == <<ecr1, ecr2>>
\* variant: the names of each namespace, one namespace after the other
getDistinctSecretNamesOfEach(nss) ==
    LET At(i, k) == i <= Len(nss) /\ k \in SecretLabels(nss[i])
        In1(k) == At(1, k)
        In2(k) == At(2, k)
        In3(k) == At(3, k)
    IN SelectSeq(SortedKeys, In1) \o SelectSeq(SortedKeys, In2) \o SelectSeq(SortedKeys, In3)
getDistinctSecretNames(nss) ==
    LET names == UNION {SecretLabels(nss[i]) : i \in DOMAIN nss}
        In(k) == k \in names
    IN SelectSeq(SortedKeys, In)

\* variant: the credentials secret is looked up under the name of the registry
awsCredentialsSecretNameNoPrefix(secretName) == secretName
awsCredentialsSecretName(secretName) == AWSCredentialsSecretPrefix \o "-" \o secretName

\* createECRAuthTokenData from the i-th name on; failing is the call that fails
\* with a transient error, if any; acc.asked are the calls of ECR.GetAuthToken; acc.issue is the time of the registry's answers:
\* the tokens of one reconciliation are one moment's, later than every token before
RECURSIVE createECRAuthTokenDataFrom(_, _, _, _, _)
createECRAuthTokenDataFrom(store, secretNames, i, acc, failing) ==
    IF i > Len(secretNames) THEN acc
    ELSE LET secretName == secretNames[i]
             name == awsCredentialsSecretName(secretName)
             got == IF failing = <<secretName, "GetSecret">>
                    THEN [found |-> {}, err |-> Transient]
                    ELSE GetSecret(store, HostNamespace, name)
             read == [acc EXCEPT !.credsRead = @ \cup
                        {[label |-> secretName, ns |-> HostNamespace, name |-> name]}]
         IN IF got.err # nil
            THEN IF IsNotFound(got.err)
                 THEN createECRAuthTokenDataFrom(store, secretNames, i + 1,
                          [read EXCEPT !.missing = @ \cup {secretName}], failing)
                 ELSE [read EXCEPT !.res = EmptyMap,
                          !.err = Wrap(got.err, "get AWS credentials secret failed")]
            ELSE LET sec == CHOOSE x \in got.found : TRUE
                     region == DataField(sec, "aws_region")
                     id == DataField(sec, "aws_access_key_id")
                     secret == DataField(sec, "aws_secret_access_key")
                 IN IF ctxDone(Background)
                    THEN [read EXCEPT !.res = EmptyMap,
                             !.err = Wrap(Canceled, "get ECR authorization token failed")]
                    ELSE IF failing = <<secretName, "GetAuthToken">>
                    THEN [read EXCEPT !.res = EmptyMap,
                             !.asked = Append(@, secretName),
                             !.err = Wrap(Transient, "get ECR authorization token failed")]
                    ELSE createECRAuthTokenDataFrom(store, secretNames, i + 1,
                             [read EXCEPT
                                 !.res = (secretName :> GetAuthToken(region, id, secret, acc.issue)) @@ @,
                                 !.calls = @ + 1,
                                 !.asked = Append(@, secretName),
                                 !.found = @ \cup {secretName}],
                             failing)

\* variant: the names are done with at the first one without a credentials secret
createECRAuthTokenDataUntilMissing(store, secretNames, calls, failing) ==
    LET Missing(i) == GetSecret(store, HostNamespace, awsCredentialsSecretName(secretNames[i])).err # nil
        upTo == IF \E i \in DOMAIN secretNames : Missing(i)
                THEN CHOOSE i \in DOMAIN secretNames :
                        Missing(i) /\ \A j \in 1..(i - 1) : ~Missing(j)
                ELSE Len(secretNames)
    IN createECRAuthTokenDataFrom(store, SubSeq(secretNames, 1, upTo), 1,
           [res |-> EmptyMap, err |-> nil, calls |-> calls, issue |-> calls + 1, credsRead |-> {},
            missing |-> {}, found |-> {}, asked |-> <<>>],
           failing)

createECRAuthTokenData(store, secretNames, calls, failing) ==
    createECRAuthTokenDataFrom(store, secretNames, 1,
        [res |-> EmptyMap, err |-> nil, calls |-> calls, issue |-> calls + 1, credsRead |-> {},
         missing |-> {}, found |-> {}, asked |-> <<>>],
        failing)

\* variant: the secret is named after the endpoint of the token
newSecretNamedByEndpoint(secretName, authTokenData) ==
    [Namespace |-> "",
     Name |-> authTokenData.ProxyEndpoint,
     Type |-> SecretTypeDockerConfigJson,
     Data |-> (DockerConfigJsonKey :>
                 secretDataTemplate(authTokenData.ProxyEndpoint, authTokenData.AuthorizationToken))]

\* variant: the secret is of the legacy dockercfg type
newSecretDockercfg(secretName, authTokenData) ==
    [Namespace |-> "",
     Name |-> secretName,
     Type |-> "kubernetes.io/dockercfg",
     Data |-> (".dockercfg" :>
                 secretDataTemplate(authTokenData.ProxyEndpoint, authTokenData.AuthorizationToken))]

\* variant: the secret is named as the credentials secret of its registry
newSecretNamedAsCredentials(secretName, authTokenData) ==
    [Namespace |-> "",
     Name |-> awsCredentialsSecretName(secretName),
     Type |-> SecretTypeDockerConfigJson,
     Data |-> (DockerConfigJsonKey :>
                 secretDataTemplate(authTokenData.ProxyEndpoint, authTokenData.AuthorizationToken))]

\* the secret createNamespaceSecret builds
newSecret(secretName, authTokenData) ==
    [Namespace |-> "",
     Name |-> secretName,
     Type |-> SecretTypeDockerConfigJson,
     Data |-> (DockerConfigJsonKey :>
                 secretDataTemplate(authTokenData.ProxyEndpoint, authTokenData.AuthorizationToken))]

\* variant: a secret that is there already is left as it is
createNamespaceSecretOnce(store, nsl, nsName, secretName, authTokenData, failing) ==
    LET secret == newSecret(secretName, authTokenData)
        got == IF "GetSecret" \in failing THEN [found |-> {}, err |-> Transient]
               ELSE GetSecret(store, nsName, secretName)
        op == IF got.err # nil THEN "CreateSecret" ELSE "UpdateSecret"
        done == IF "Write" \in failing THEN [secrets |-> store, err |-> Transient]
                ELSE IF op = "CreateSecret" THEN CreateSecret(store, nsl, nsName, secret)
                ELSE [secrets |-> store, err |-> nil]
    IN [secrets |-> done.secrets,
        op |-> op,
        got |-> got.err.kind,
        ns |-> nsName,
        name |-> secret.Name,
        err |-> IF done.err # nil
                THEN Wrap(done.err, "create or update of namespace secret failed")
                ELSE nil]

\* variant: the secret is created without a look at what is there
createNamespaceSecretAlwaysCreates(store, nsl, nsName, secretName, authTokenData, failing) ==
    LET secret == newSecret(secretName, authTokenData)
        done == IF "Write" \in failing THEN [secrets |-> store, err |-> Transient]
                ELSE CreateSecret(store, nsl, nsName, secret)
    IN [secrets |-> done.secrets,
        op |-> "CreateSecret",
        got |-> "none",
        ns |-> nsName,
        name |-> secret.Name,
        err |-> IF done.err # nil
                THEN Wrap(done.err, "create or update of namespace secret failed")
                ELSE nil]

\* variant: the error of the create or update is dropped
createNamespaceSecretSwallowing(store, nsl, nsName, secretName, authTokenData, failing) ==
    LET secret == newSecret(secretName, authTokenData)
        got == IF "GetSecret" \in failing THEN [found |-> {}, err |-> Transient]
               ELSE GetSecret(store, nsName, secretName)
        op == IF got.err # nil THEN "CreateSecret" ELSE "UpdateSecret"
        done == IF "Write" \in failing THEN [secrets |-> store, err |-> Transient]
                ELSE IF op = "CreateSecret" THEN CreateSecret(store, nsl, nsName, secret)
                ELSE UpdateSecret(store, nsl, nsName, secret)
    IN [secrets |-> done.secrets, op |-> op, got |-> got.err.kind, ns |-> nsName,
        name |-> secret.Name, err |-> nil]

\* createNamespaceSecret: get, then update when the get succeeded and create when it
\* failed, with whatever error (got); failing is the set of its calls that fail with a
\* transient error
createNamespaceSecret(store, nsl, nsName, secretName, authTokenData, failing) ==
    LET secret == newSecret(secretName, authTokenData)
        got == IF "GetSecret" \in failing THEN [found |-> {}, err |-> Transient]
               ELSE GetSecret(store, nsName, secretName)
        op == IF got.err # nil THEN "CreateSecret" ELSE "UpdateSecret"
        done == IF "Write" \in failing THEN [secrets |-> store, err |-> Transient]
                ELSE IF op = "CreateSecret" THEN CreateSecret(store, nsl, nsName, secret)
                ELSE UpdateSecret(store, nsl, nsName, secret)
    IN [secrets |-> done.secrets,
        op |-> op,
        got |-> got.err.kind,
        ns |-> nsName,
        name |-> secret.Name,
        err |-> IF done.err # nil
                THEN Wrap(done.err, "create or update of namespace secret failed")
                ELSE nil]

(***************************************************************************)
(* The state after newController, over the seeded clusters of the tests.   *)
(***************************************************************************)
Namespace(name, labels, phase, rv) ==
    [Name |-> name, Phase |-> phase, Labels |-> labels, ResourceVersion |-> rv]

\* the AWS credentials secret of a registry, named as the preparation script names
\* it; the one of the second registry holds another region than its name says
CredentialsSecret(k) ==
    [Namespace |-> HostNamespace,
     Name |-> "eatr-aws-credentials" \o "-" \o k,
     Type |-> SecretTypeOpaque,
     Data |-> IF k = ecr1
              THEN [aws_region |-> "eu-west-1", aws_access_key_id |-> "AKIA-123456789012",
                    aws_secret_access_key |-> "s3cr3t-1"]
              ELSE [aws_region |-> "us-west-2", aws_access_key_id |-> "AKIA-444456781111",
                    aws_secret_access_key |-> "s3cr3t-2"]]

\* a secret of the host namespace that is named as a registry, without the prefix
PlainHostSecret ==
    [Namespace |-> HostNamespace, Name |-> ecr1, Type |-> SecretTypeOpaque, Data |-> EmptyMap]

Seeds ==
    { [host |-> LabelsEcr1True, one |-> LabelsBothTrue, phase |-> NamespaceActive,
       creds |-> {}, plain |-> TRUE],
      [host |-> LabelsEcr1False, one |-> LabelsBothTrue, phase |-> NamespaceActive,
       creds |-> {ecr1}, plain |-> FALSE],
      [host |-> LabelsEcr1True, one |-> LabelsBothTrue, phase |-> NamespaceActive,
       creds |-> {ecr1, ecr2}, plain |-> TRUE],
      [host |-> LabelsEcr1True, one |-> LabelsMixed, phase |-> NamespaceTerminating,
       creds |-> {ecr2}, plain |-> FALSE] }

IdleWorker(pc) ==
    [pc |-> pc, key |-> "", list |-> <<>>, nss |-> <<>>, authTokenData |-> EmptyMap,
     credsRead |-> {}, missing |-> {}, found |-> {}, idx |-> 0, labelsLeft |-> {},
     written |-> {}, calls |-> {}, nsCalls |-> <<>>, secretNames |-> <<>>, asked |-> <<>>, err |-> nil]

TrueLabels(nsl) == {<<nsl[i].Name, k>> : i \in DOMAIN nsl, k \in RegistryKeys}
                   \cap {p \in Pairs : \E i \in DOMAIN nsl :
                            /\ nsl[i].Name = p[1]
                            /\ p[2] \in DOMAIN nsl[i].Labels
                            /\ nsl[i].Labels[p[2]] = "true"}

Init ==
    \E seed \in Seeds :
        /\ namespaces = << Namespace(HostNamespace, seed.host, NamespaceActive, 1),
                           Namespace(ns1, seed.one, seed.phase, 1) >>
        /\ secrets = {CredentialsSecret(k) : k \in seed.creds}
                     \cup (IF seed.plain THEN {PlainHostSecret} ELSE {})
        /\ k8sStats = [newlyCreatedSecretCount |-> 0, updatedSecretCount |-> 0,
                       createdNamespaceSecretKeys |-> {}]
        /\ ecrCalls = 0
        /\ Queue = [queue |-> <<>>, dirty |-> {}, processing |-> {}, shuttingDown |-> FALSE]
        /\ stop = FALSE
        /\ HasSynced = FALSE
        /\ run = "WaitForCacheSync"
        /\ wk = [w \in Workers |-> IdleWorker("notStarted")]
        /\ SecretsCounter = [p \in Pairs |-> 0]
        /\ SecretRenewalsCounter = 0
        /\ hist = [ticks |-> 0, env |-> 0, faults |-> 0,
                   added |-> 0, addCalls |-> [k \in QueueKeys |-> 0],
                   renewed |-> [k \in QueueKeys |-> 0],
                   everTrue |-> TrueLabels(<< Namespace(HostNamespace, seed.host, NamespaceActive, 1),
                                              Namespace(ns1, seed.one, seed.phase, 1) >>),
                   created |-> {}, deleted |-> {}, warned |-> {}]

\* the disturbances so far, and whether n more fit the bound
Disturbances == hist.env + hist.faults
MayDisturb(n) == Disturbances + n <= MaxDisturbances

(***************************************************************************)
(* The informer's callbacks (newController).                               *)
(***************************************************************************)
\* variant: the callback asks for all namespaces
AddFuncAllNamespaces(q, obj) == QueueAdd(q, allNamespacesKey)

\* AddFunc: always enqueues the name
AddFunc(q, obj) == QueueAdd(q, obj.Name)

\* variant: the resource versions are not compared
UpdateEnqueuesAlways(oldNS, newNS) == TRUE

\* the test UpdateFunc applies before it enqueues
UpdateEnqueues(oldNS, newNS) == oldNS.ResourceVersion # newNS.ResourceVersion

\* UpdateFunc: enqueues the name when the resource version changed
UpdateFunc(q, oldNS, newNS) ==
    IF UpdateEnqueues(oldNS, newNS) THEN QueueAdd(q, newNS.Name) ELSE q

\* what a callback leaves in the history: its call of Queue.Add, if it made one
Delivered(h, name, enqueued) ==
    [h EXCEPT !.addCalls = IF enqueued THEN [@ EXCEPT ![name] = @ + 1] ELSE @]

\* the informer's initial list: an Added event for each namespace the cluster had at
\* start, in the order of the list
SeedList == <<HostNamespace, ns1>>
AddedSeeded(n) ==
    /\ hist.added < Len(SeedList)
    /\ n = SeedList[hist.added + 1]
    /\ LET obj == IF NamespaceExists(namespaces, n) THEN NamespaceNamed(namespaces, n)
                  ELSE Namespace(n, NoLabels, NamespaceActive, 1)
       IN /\ Queue' = AddFunc(Queue, obj)
          /\ hist' = [Delivered(hist, n, TRUE) EXCEPT !.added = @ + 1]
    /\ UNCHANGED <<namespaces, secrets, k8sStats, ecrCalls, stop, HasSynced, run, wk,
                   SecretsCounter, SecretRenewalsCounter>>

\* a namespace is created: the orchestrator stores it and the informer reports it
CreateNamespace(n, labels) ==
    /\ MayDisturb(1)
    /\ n \in NsNames \ SeedNames
    /\ n \notin hist.created
    /\ LET obj == Namespace(n, labels, NamespaceActive, 1)
       IN /\ namespaces' = Append(namespaces, obj)
          /\ Queue' = AddFunc(Queue, obj)
          /\ hist' = [Delivered(hist, n, TRUE)
                        EXCEPT !.env = @ + 1,
                               !.created = @ \cup {n},
                               !.everTrue = @ \cup TrueLabels(<<obj>>)]
    /\ UNCHANGED <<secrets, k8sStats, ecrCalls, stop, HasSynced, run, wk,
                   SecretsCounter, SecretRenewalsCounter>>

\* a namespace is changed (labels, phase): a new resource version, an Updated event
UpdateNamespace(n, labels, phase) ==
    /\ MayDisturb(1)
    /\ NamespaceExists(namespaces, n)
    /\ LET oldNS == NamespaceNamed(namespaces, n)
           newNS == Namespace(n, labels, phase, oldNS.ResourceVersion + 1)
       IN /\ <<labels, phase>> # <<oldNS.Labels, oldNS.Phase>>
          /\ namespaces' = [i \in DOMAIN namespaces |->
                              IF namespaces[i].Name = n THEN newNS ELSE namespaces[i]]
          /\ Queue' = UpdateFunc(Queue, oldNS, newNS)
          /\ hist' = [Delivered(hist, n, UpdateEnqueues(oldNS, newNS))
                        EXCEPT !.env = @ + 1,
                               !.everTrue = @ \cup TrueLabels(<<newNS>>)]
    /\ UNCHANGED <<secrets, k8sStats, ecrCalls, stop, HasSynced, run, wk,
                   SecretsCounter, SecretRenewalsCounter>>

\* the labels of a namespace are changed
RelabelNamespace(n, labels) ==
    /\ NamespaceExists(namespaces, n)
    /\ UpdateNamespace(n, labels, NamespaceNamed(namespaces, n).Phase)

\* the phase of a namespace is changed
RephaseNamespace(n, phase) ==
    /\ NamespaceExists(namespaces, n)
    /\ UpdateNamespace(n, NamespaceNamed(namespaces, n).Labels, phase)

\* the informer re-syncs: an Updated event for each namespace, with the same object
\* on both sides
RECURSIVE ResyncFrom(_, _, _)
ResyncFrom(nsl, i, qh) ==
    IF i > Len(nsl) THEN qh
    ELSE ResyncFrom(nsl, i + 1,
            [q |-> UpdateFunc(qh.q, nsl[i], nsl[i]),
             h |-> Delivered(qh.h, nsl[i].Name, UpdateEnqueues(nsl[i], nsl[i]))])

Resync ==
    /\ Queue' = ResyncFrom(namespaces, 1, [q |-> Queue, h |-> hist]).q
    /\ hist' = ResyncFrom(namespaces, 1, [q |-> Queue, h |-> hist]).h
    /\ UNCHANGED <<namespaces, secrets, k8sStats, ecrCalls, stop, HasSynced, run, wk,
                   SecretsCounter, SecretRenewalsCounter>>

\* a namespace is deleted, with the secrets in it; no callback is registered for it
DeleteNamespace(n) ==
    /\ MayDisturb(1)
    /\ n # HostNamespace
    /\ NamespaceExists(namespaces, n)
    /\ LET Keep(ns) == ns.Name # n
       IN namespaces' = SelectSeq(namespaces, Keep)
    /\ secrets' = {s \in secrets : s.Namespace # n}
    /\ hist' = [hist EXCEPT !.env = @ + 1, !.deleted = @ \cup {n}]
    /\ UNCHANGED <<k8sStats, ecrCalls, Queue, stop, HasSynced, run, wk,
                   SecretsCounter, SecretRenewalsCounter>>

\* the AWS credentials secret of a registry is put into the host namespace, or removed
SetCredentials(k) ==
    /\ MayDisturb(1)
    /\ k \in RegistryKeys
    /\ secrets' = IF CredentialsSecret(k) \in secrets
                  THEN secrets \ {CredentialsSecret(k)}
                  ELSE secrets \cup {CredentialsSecret(k)}
    /\ hist' = [hist EXCEPT !.env = @ + 1]
    /\ UNCHANGED <<namespaces, k8sStats, ecrCalls, Queue, stop, HasSynced, run, wk,
                   SecretsCounter, SecretRenewalsCounter>>

(***************************************************************************)
(* Run: waits for the cache, starts the queue consumer loop, then ticks    *)
(* until stop; the queue is shut down when it returns.                     *)
(***************************************************************************)
\* variant: Run starts the loop twice
ConsumerLoopsTwo == {"w1", "w2"}

\* the goroutines Run starts with "go c.runQueueConsumerLoop()"
ConsumerLoops == {"w1"}

InformerSynced ==
    /\ ~HasSynced
    /\ HasSynced' = TRUE
    /\ UNCHANGED <<namespaces, secrets, k8sStats, ecrCalls, Queue, stop, run, wk,
                   SecretsCounter, SecretRenewalsCounter, hist>>

CloseStop ==
    /\ ~stop
    /\ stop' = TRUE
    /\ UNCHANGED <<namespaces, secrets, k8sStats, ecrCalls, Queue, HasSynced, run, wk,
                   SecretsCounter, SecretRenewalsCounter, hist>>

\* variant: Run goes to its loop without starting the consumer loop
RunCachesSyncedNoLoop ==
    /\ run = "WaitForCacheSync"
    /\ HasSynced
    /\ run' = "select"
    /\ UNCHANGED <<namespaces, secrets, k8sStats, ecrCalls, Queue, stop, HasSynced, wk,
                   SecretsCounter, SecretRenewalsCounter, hist>>

\* variant: Run does not wait for the cache
RunCachesSyncedUnwaited ==
    /\ run = "WaitForCacheSync"
    /\ run' = "select"
    /\ wk' = [w \in Workers |-> IF w \in ConsumerLoops THEN IdleWorker("Get") ELSE wk[w]]
    /\ UNCHANGED <<namespaces, secrets, k8sStats, ecrCalls, Queue, stop, HasSynced,
                   SecretsCounter, SecretRenewalsCounter, hist>>

\* WaitForCacheSync returns true: the consumer loop is started
RunCachesSynced ==
    /\ run = "WaitForCacheSync"
    /\ HasSynced
    /\ run' = "select"
    /\ wk' = [w \in Workers |-> IF w \in ConsumerLoops THEN IdleWorker("Get") ELSE wk[w]]
    /\ UNCHANGED <<namespaces, secrets, k8sStats, ecrCalls, Queue, stop, HasSynced,
                   SecretsCounter, SecretRenewalsCounter, hist>>

\* WaitForCacheSync returns false: stop fired first; the deferred ShutDown runs
RunSyncStopped ==
    /\ run = "WaitForCacheSync"
    /\ stop
    /\ run' = "returned"
    /\ Queue' = QueueShutDown(Queue)
    /\ UNCHANGED <<namespaces, secrets, k8sStats, ecrCalls, stop, HasSynced, wk,
                   SecretsCounter, SecretRenewalsCounter, hist>>

\* variant: the tick adds the name of the host namespace
RunTickHostKey ==
    /\ run = "select"
    /\ hist.ticks < MaxTicks
    /\ Queue' = QueueAdd(Queue, HostNamespace)
    /\ hist' = [hist EXCEPT !.ticks = @ + 1,
                            !.addCalls = [@ EXCEPT ![HostNamespace] = @ + 1]]
    /\ UNCHANGED <<namespaces, secrets, k8sStats, ecrCalls, stop, HasSynced, run, wk,
                   SecretsCounter, SecretRenewalsCounter>>

\* case <-tick: the key of all namespaces is added
RunTick ==
    /\ run = "select"
    /\ hist.ticks < MaxTicks
    /\ Queue' = QueueAdd(Queue, allNamespacesKey)
    /\ hist' = [hist EXCEPT !.ticks = @ + 1,
                            !.addCalls = [@ EXCEPT ![allNamespacesKey] = @ + 1]]
    /\ UNCHANGED <<namespaces, secrets, k8sStats, ecrCalls, stop, HasSynced, run, wk,
                   SecretsCounter, SecretRenewalsCounter>>

\* case <-stop: Run returns; the deferred ShutDown runs
RunStop ==
    /\ run = "select"
    /\ stop
    /\ run' = "returned"
    /\ Queue' = QueueShutDown(Queue)
    /\ UNCHANGED <<namespaces, secrets, k8sStats, ecrCalls, stop, HasSynced, wk,
                   SecretsCounter, SecretRenewalsCounter, hist>>

(***************************************************************************)
(* runQueueConsumerLoop and renewECRImagePullSecrets, a step for each of   *)
(* its blocking calls.                                                     *)
(***************************************************************************)
\* the labels of a namespace the loop of renewECRImagePullSecrets writes a secret for
ToWrite(ns, authTokenData) == {k \in SecretLabels(ns) : k \in DOMAIN authTokenData}

\* the first namespace from index i on that has a secret to write, or Len + 1
RECURSIVE NextToWrite(_, _, _)
NextToWrite(nss, authTokenData, i) ==
    IF i > Len(nss) THEN i
    ELSE IF ToWrite(nss[i], authTokenData) # {} THEN i
    ELSE NextToWrite(nss, authTokenData, i + 1)

\* Queue.Get returns a key
WorkerGet(w) ==
    /\ wk[w].pc = "Get"
    /\ Queue.queue # <<>>
    /\ wk' = [wk EXCEPT ![w] = [IdleWorker("getNamespacesToProcess") EXCEPT !.key = Head(Queue.queue)]]
    /\ Queue' = QueueGet(Queue)
    /\ UNCHANGED <<namespaces, secrets, k8sStats, ecrCalls, stop, HasSynced, run,
                   SecretsCounter, SecretRenewalsCounter, hist>>

\* Queue.Get returns quit: the loop is done
WorkerQuit(w) ==
    /\ wk[w].pc = "Get"
    /\ Queue.queue = <<>>
    /\ Queue.shuttingDown
    /\ wk' = [wk EXCEPT ![w].pc = "exited"]
    /\ UNCHANGED <<namespaces, secrets, k8sStats, ecrCalls, Queue, stop, HasSynced, run,
                   SecretsCounter, SecretRenewalsCounter, hist>>

\* renewECRImagePullSecrets up to the namespaces to process
RenewGetNamespaces(w) ==
    /\ wk[w].pc = "getNamespacesToProcess"
    /\ \E failing \in BOOLEAN :
        /\ failing => MayDisturb(1)
        /\ LET r == getNamespacesToProcess(namespaces, wk[w].key, failing)
           IN /\ wk' = [wk EXCEPT ![w] =
                    IF r.err # nil
                    THEN [@ EXCEPT !.pc = "returned", !.nsCalls = Append(@, r.call),
                                   !.err = Wrap(r.err, "get namespaces to process failed")]
                    ELSE IF Len(r.nss) = 0
                    THEN [@ EXCEPT !.pc = "returned", !.nsCalls = Append(@, r.call),
                                   !.list = r.list, !.nss = r.nss]
                    ELSE [@ EXCEPT !.pc = "createECRAuthTokenData", !.nsCalls = Append(@, r.call),
                                   !.list = r.list, !.nss = r.nss]]
              /\ hist' = [hist EXCEPT !.faults = IF failing THEN @ + 1 ELSE @]
    /\ UNCHANGED <<namespaces, secrets, k8sStats, ecrCalls, Queue, stop, HasSynced, run,
                   SecretsCounter, SecretRenewalsCounter>>

\* variant: a failure of the token data is passed over and the tokens that can be had are written
RenewCreateTokensGoingOn(w) ==
    /\ wk[w].pc = "createECRAuthTokenData"
    /\ LET secretNames == getDistinctSecretNames(wk[w].nss)
       IN \E failing \in {<<"", "none">>} \cup (Range(secretNames) \X {"GetSecret", "GetAuthToken"}) :
            /\ failing[2] # "none" => MayDisturb(1)
            /\ LET r0 == createECRAuthTokenData(secrets, secretNames, ecrCalls, failing)
                   r == IF r0.err = nil THEN r0
                        ELSE [createECRAuthTokenData(secrets, secretNames, ecrCalls, <<"", "none">>)
                                 EXCEPT !.err = nil]
                   first == NextToWrite(wk[w].nss, r.res, 1)
               IN /\ failing[2] # "none" => r0.err # nil
                  /\ ecrCalls' = r.calls
                  /\ hist' = [hist EXCEPT !.faults = IF r0.err # nil THEN @ + 1 ELSE @]
                  /\ wk' = [wk EXCEPT ![w] =
                        IF r.err # nil
                        THEN [@ EXCEPT !.pc = "returned", !.credsRead = r.credsRead, !.asked = r.asked,
                                       !.secretNames = secretNames,
                                       !.missing = r.missing, !.found = r.found,
                                       !.err = Wrap(r.err, "create ECR authorization tokens failed")]
                        ELSE IF DOMAIN r.res = {}
                        THEN [@ EXCEPT !.pc = "returned", !.credsRead = r.credsRead, !.asked = r.asked,
                                       !.secretNames = secretNames,
                                       !.missing = r.missing, !.found = r.found]
                        ELSE [@ EXCEPT !.pc = "createNamespaceSecret", !.credsRead = r.credsRead, !.asked = r.asked,
                                       !.secretNames = secretNames,
                                       !.missing = r.missing, !.found = r.found,
                                       !.authTokenData = r.res,
                                       !.idx = first,
                                       !.labelsLeft = ToWrite(wk[w].nss[first], r.res)]]
    /\ UNCHANGED <<namespaces, secrets, k8sStats, Queue, stop, HasSynced, run,
                   SecretsCounter, SecretRenewalsCounter>>

\* renewECRImagePullSecrets from the distinct secret names to the token data
RenewCreateTokens(w) ==
    /\ wk[w].pc = "createECRAuthTokenData"
    /\ LET secretNames == getDistinctSecretNames(wk[w].nss)
       IN \E failing \in {<<"", "none">>} \cup (Range(secretNames) \X {"GetSecret", "GetAuthToken"}) :
            /\ failing[2] # "none" => MayDisturb(1)
            /\ LET r == createECRAuthTokenData(secrets, secretNames, ecrCalls, failing)
                   first == NextToWrite(wk[w].nss, r.res, 1)
               IN /\ failing[2] # "none" => r.err # nil
                  /\ ecrCalls' = r.calls
                  /\ hist' = [hist EXCEPT !.faults = IF r.err # nil THEN @ + 1 ELSE @]
                  /\ wk' = [wk EXCEPT ![w] =
                        IF r.err # nil
                        THEN [@ EXCEPT !.pc = "returned", !.credsRead = r.credsRead, !.asked = r.asked,
                                       !.secretNames = secretNames,
                                       !.missing = r.missing, !.found = r.found,
                                       !.err = Wrap(r.err, "create ECR authorization tokens failed")]
                        ELSE IF DOMAIN r.res = {}
                        THEN [@ EXCEPT !.pc = "returned", !.credsRead = r.credsRead, !.asked = r.asked,
                                       !.secretNames = secretNames,
                                       !.missing = r.missing, !.found = r.found]
                        ELSE [@ EXCEPT !.pc = "createNamespaceSecret", !.credsRead = r.credsRead, !.asked = r.asked,
                                       !.secretNames = secretNames,
                                       !.missing = r.missing, !.found = r.found,
                                       !.authTokenData = r.res,
                                       !.idx = first,
                                       !.labelsLeft = ToWrite(wk[w].nss[first], r.res)]]
    /\ UNCHANGED <<namespaces, secrets, k8sStats, Queue, stop, HasSynced, run,
                   SecretsCounter, SecretRenewalsCounter>>

\* variant: the loop goes on to the next label after a write that failed
RenewCreateSecretGoingOn(w) ==
    /\ wk[w].pc = "createNamespaceSecret"
    /\ \E k \in wk[w].labelsLeft, failing \in SUBSET {"GetSecret", "Write"} :
        /\ MayDisturb(Cardinality(failing))
        /\ LET ns == wk[w].nss[wk[w].idx]
               r == createNamespaceSecret(secrets, namespaces, ns.Name, k,
                                          wk[w].authTokenData[k], failing)
               call == [op |-> r.op, got |-> r.got, ns |-> r.ns, name |-> r.name, label |-> k,
                        err |-> r.err.kind]
               left == wk[w].labelsLeft \ {k}
               next == IF left # {} THEN wk[w].idx
                       ELSE NextToWrite(wk[w].nss, wk[w].authTokenData, wk[w].idx + 1)
               last == next > Len(wk[w].nss)
               ok == r.err = nil
           IN /\ hist' = [hist EXCEPT !.faults = @ + Cardinality(failing)]
              /\ secrets' = r.secrets
              /\ k8sStats' = IF ~ok THEN k8sStats ELSE [k8sStats EXCEPT
                    !.newlyCreatedSecretCount = IF r.op = "CreateSecret" THEN @ + 1 ELSE @,
                    !.updatedSecretCount = IF r.op = "UpdateSecret" THEN @ + 1 ELSE @,
                    !.createdNamespaceSecretKeys = @ \cup {<<r.ns, r.name>>}]
              /\ SecretsCounter' = IF ~ok THEN SecretsCounter
                                   ELSE [SecretsCounter EXCEPT ![<<ns.Name, k>>] = @ + 1]
              /\ SecretRenewalsCounter' =
                    IF last /\ wk[w].key = allNamespacesKey
                    THEN SecretRenewalsCounter + 1 ELSE SecretRenewalsCounter
              /\ wk' = [wk EXCEPT ![w] = [@ EXCEPT
                           !.pc = IF last THEN "returned" ELSE "createNamespaceSecret",
                           !.calls = @ \cup {call},
                           !.err = IF ~ok THEN Wrap(r.err, "create namespace secret failed") ELSE @,
                           !.written = IF ok THEN @ \cup {[ns |-> r.ns, label |-> k, name |-> r.name]}
                                       ELSE @,
                           !.idx = next,
                           !.labelsLeft = IF left # {} THEN left
                                          ELSE IF last THEN {}
                                          ELSE ToWrite(wk[w].nss[next], wk[w].authTokenData)]]
    /\ UNCHANGED <<namespaces, ecrCalls, Queue, stop, HasSynced, run>>

\* variant: a sweep is counted as a renewal when it ends, failed or not
RenewCreateSecretCountingAll(w) ==
    /\ wk[w].pc = "createNamespaceSecret"
    /\ \E k \in wk[w].labelsLeft, failing \in SUBSET {"GetSecret", "Write"} :
        /\ MayDisturb(Cardinality(failing))
        /\ LET ns == wk[w].nss[wk[w].idx]
               r == createNamespaceSecret(secrets, namespaces, ns.Name, k,
                                          wk[w].authTokenData[k], failing)
               call == [op |-> r.op, got |-> r.got, ns |-> r.ns, name |-> r.name, label |-> k,
                        err |-> r.err.kind]
               left == wk[w].labelsLeft \ {k}
               next == IF left # {} THEN wk[w].idx
                       ELSE NextToWrite(wk[w].nss, wk[w].authTokenData, wk[w].idx + 1)
               last == next > Len(wk[w].nss)
           IN /\ hist' = [hist EXCEPT !.faults = @ + Cardinality(failing)]
              /\ IF r.err # nil
                 THEN /\ wk' = [wk EXCEPT ![w] = [@ EXCEPT
                                   !.pc = "returned",
                                   !.calls = @ \cup {call},
                                   !.err = Wrap(r.err, "create namespace secret failed")]]
                      /\ SecretRenewalsCounter' =
                            IF wk[w].key = allNamespacesKey
                            THEN SecretRenewalsCounter + 1 ELSE SecretRenewalsCounter
                      /\ UNCHANGED <<secrets, k8sStats, SecretsCounter>>
                 ELSE /\ secrets' = r.secrets
                      /\ k8sStats' = [k8sStats EXCEPT
                            !.newlyCreatedSecretCount = IF r.op = "CreateSecret" THEN @ + 1 ELSE @,
                            !.updatedSecretCount = IF r.op = "UpdateSecret" THEN @ + 1 ELSE @,
                            !.createdNamespaceSecretKeys = @ \cup {<<r.ns, r.name>>}]
                      /\ SecretsCounter' = [SecretsCounter EXCEPT ![<<ns.Name, k>>] = @ + 1]
                      /\ SecretRenewalsCounter' =
                            IF last /\ wk[w].key = allNamespacesKey
                            THEN SecretRenewalsCounter + 1 ELSE SecretRenewalsCounter
                      /\ wk' = [wk EXCEPT ![w] = [@ EXCEPT
                                   !.pc = IF last THEN "returned" ELSE "createNamespaceSecret",
                                   !.calls = @ \cup {call},
                                   !.written = @ \cup {[ns |-> r.ns, label |-> k, name |-> r.name]},
                                   !.idx = next,
                                   !.labelsLeft = IF left # {} THEN left
                                                  ELSE IF last THEN {}
                                                  ELSE ToWrite(wk[w].nss[next], wk[w].authTokenData)]]
    /\ UNCHANGED <<namespaces, ecrCalls, Queue, stop, HasSynced, run>>

\* one turn of the loop of renewECRImagePullSecrets that calls createNamespaceSecret
\* (the labels of a namespace come in any order); after the last one the renewal
\* is counted and the function returns
RenewCreateSecret(w) ==
    /\ wk[w].pc = "createNamespaceSecret"
    /\ \E k \in wk[w].labelsLeft, failing \in SUBSET {"GetSecret", "Write"} :
        /\ MayDisturb(Cardinality(failing))
        /\ LET ns == wk[w].nss[wk[w].idx]
               r == createNamespaceSecret(secrets, namespaces, ns.Name, k,
                                          wk[w].authTokenData[k], failing)
               call == [op |-> r.op, got |-> r.got, ns |-> r.ns, name |-> r.name, label |-> k,
                        err |-> r.err.kind]
               left == wk[w].labelsLeft \ {k}
               next == IF left # {} THEN wk[w].idx
                       ELSE NextToWrite(wk[w].nss, wk[w].authTokenData, wk[w].idx + 1)
               last == next > Len(wk[w].nss)
           IN /\ hist' = [hist EXCEPT !.faults = @ + Cardinality(failing)]
              /\ IF r.err # nil
                 THEN /\ wk' = [wk EXCEPT ![w] = [@ EXCEPT
                                   !.pc = "returned",
                                   !.calls = @ \cup {call},
                                   !.err = Wrap(r.err, "create namespace secret failed")]]
                      /\ UNCHANGED <<secrets, k8sStats, SecretsCounter, SecretRenewalsCounter>>
                 ELSE /\ secrets' = r.secrets
                      /\ k8sStats' = [k8sStats EXCEPT
                            !.newlyCreatedSecretCount = IF r.op = "CreateSecret" THEN @ + 1 ELSE @,
                            !.updatedSecretCount = IF r.op = "UpdateSecret" THEN @ + 1 ELSE @,
                            !.createdNamespaceSecretKeys = @ \cup {<<r.ns, r.name>>}]
                      /\ SecretsCounter' = [SecretsCounter EXCEPT ![<<ns.Name, k>>] = @ + 1]
                      /\ SecretRenewalsCounter' =
                            IF last /\ wk[w].key = allNamespacesKey
                            THEN SecretRenewalsCounter + 1 ELSE SecretRenewalsCounter
                      /\ wk' = [wk EXCEPT ![w] = [@ EXCEPT
                                   !.pc = IF last THEN "returned" ELSE "createNamespaceSecret",
                                   !.calls = @ \cup {call},
                                   !.written = @ \cup {[ns |-> r.ns, label |-> k, name |-> r.name]},
                                   !.idx = next,
                                   !.labelsLeft = IF left # {} THEN left
                                                  ELSE IF last THEN {}
                                                  ELSE ToWrite(wk[w].nss[next], wk[w].authTokenData)]]
    /\ UNCHANGED <<namespaces, ecrCalls, Queue, stop, HasSynced, run>>

\* variant: a key whose reconciliation failed is added to the queue again
WorkerDoneRetrying(w) ==
    /\ wk[w].pc = "returned"
    /\ Queue' = QueueDone(IF wk[w].err # nil THEN QueueAdd(Queue, wk[w].key) ELSE Queue, wk[w].key)
    /\ hist' = [hist EXCEPT !.renewed = [@ EXCEPT ![wk[w].key] = @ + 1],
                            !.warned = IF wk[w].err # nil THEN @ \cup {wk[w].key} ELSE @]
    /\ wk' = [wk EXCEPT ![w] = IdleWorker("Get")]
    /\ UNCHANGED <<namespaces, secrets, k8sStats, ecrCalls, stop, HasSynced, run,
                   SecretsCounter, SecretRenewalsCounter>>

\* renewECRImagePullSecrets has returned: an error is logged (hist.warned holds the
\* keys it was logged for); Forget and Done
WorkerDone(w) ==
    /\ wk[w].pc = "returned"
    /\ Queue' = QueueDone(Queue, wk[w].key)
    /\ hist' = [hist EXCEPT !.renewed = [@ EXCEPT ![wk[w].key] = @ + 1],
                            !.warned = IF wk[w].err # nil THEN @ \cup {wk[w].key} ELSE @]
    /\ wk' = [wk EXCEPT ![w] = IdleWorker("Get")]
    /\ UNCHANGED <<namespaces, secrets, k8sStats, ecrCalls, stop, HasSynced, run,
                   SecretsCounter, SecretRenewalsCounter>>

(***************************************************************************)
(* The specification.                                                      *)
(***************************************************************************)
Next ==
    \/ \E n \in SeedNames : AddedSeeded(n)
    \/ \E n \in NsNames, labels \in LabelChoices : CreateNamespace(n, labels)
    \/ \E n \in NsNames, labels \in LabelChoices : RelabelNamespace(n, labels)
    \/ \E n \in NsNames, phase \in {NamespaceActive, NamespaceTerminating} : RephaseNamespace(n, phase)
    \/ Resync
    \/ \E n \in NsNames : DeleteNamespace(n)
    \/ \E k \in RegistryKeys : SetCredentials(k)
    \/ InformerSynced
    \/ CloseStop
    \/ RunCachesSynced
    \/ RunSyncStopped
    \/ RunTick
    \/ RunStop
    \/ \E w \in Workers : WorkerGet(w)
    \/ \E w \in Workers : WorkerQuit(w)
    \/ \E w \in Workers : RenewGetNamespaces(w)
    \/ \E w \in Workers : RenewCreateTokens(w)
    \/ \E w \in Workers : RenewCreateSecret(w)
    \/ \E w \in Workers : WorkerDone(w)

Spec == Init /\ [][Next]_vars

TypeOK ==
    /\ \A s \in secrets : s.Namespace \in NsNames
    /\ \A w \in Workers : wk[w].pc \in {"notStarted", "Get", "getNamespacesToProcess",
            "createECRAuthTokenData", "createNamespaceSecret", "returned", "exited"}

(***************************************************************************)
(* Vocabulary of the properties.                                           *)
(***************************************************************************)
\* renewECRImagePullSecrets has returned in goroutine w, and has not been marked done
Returned(w) == wk[w].pc = "returned"
Succeeded(w) == Returned(w) /\ wk[w].err = nil

\* the namespace objects a reconciliation read from the accessor
ListItems(w) == Range(wk[w].list)
ReadAs(w, n) == {N \in ListItems(w) : N.Name = n}
HasTrueLabel(N, k) == k \in DOMAIN N.Labels /\ MatchString(k) /\ N.Labels[k] = "true"

\* a pull secret named k is in namespace n, built from the token record tok
PullSecretFrom(n, k, tok) ==
    \E s \in secrets :
        /\ s.Namespace = n
        /\ s.Name = k
        /\ s.Type = SecretTypeDockerConfigJson
        /\ DOMAIN s.Data = {DockerConfigJsonKey}
        /\ s.Data[DockerConfigJsonKey] =
              "{ \"auths\": { \"" \o tok.ProxyEndpoint \o "\": { \"auth\": \""
                  \o tok.AuthorizationToken \o "\" } } }"

PullSecretKeys == {<<s.Namespace, s.Name>> : s \in {x \in secrets : x.Type = SecretTypeDockerConfigJson}}

\* the credentials secret of registry k is in the host namespace
HasCredentials(k) ==
    \E s \in secrets : s.Namespace = "ci-cd" /\ s.Name = "eatr-aws-credentials" \o "-" \o k

\* the pairs the cluster, as it is now, asks a pull secret for
EligiblePairs ==
    {p \in Pairs : /\ HasCredentials(p[2])
                   /\ \E i \in DOMAIN namespaces :
                        /\ namespaces[i].Name = p[1]
                        /\ namespaces[i].Phase = "Active"
                        /\ HasTrueLabel(namespaces[i], p[2])}

TotalSecretsCreated == k8sStats.newlyCreatedSecretCount + k8sStats.updatedSecretCount
Quiet == Queue.queue = <<>> /\ Queue.processing = {} /\ Queue.dirty = {}

(***************************************************************************)
(* C1. When renewECRImagePullSecrets returns success, every namespace it   *)
(* read as Active (and that still exists) has, for each of its registry    *)
(* labels set to "true" whose credentials secret was found by this         *)
(* reconciliation, a docker-config-json secret named as the label, with    *)
(* the payload built from the token fetched for it in this reconciliation. *)
(***************************************************************************)
C1_SuccessMaterializes ==
    \A w \in Workers :
        Succeeded(w) =>
            \A N \in ListItems(w) :
                (N.Phase = NamespaceActive /\ NamespaceExists(namespaces, N.Name)) =>
                    \A k \in LabelKeys :
                        (HasTrueLabel(N, k) /\ k \in wk[w].found) =>
                            /\ k \in DOMAIN wk[w].authTokenData
                            /\ PullSecretFrom(N.Name, k, wk[w].authTokenData[k])

\* a sweep of all namespaces has succeeded and has written two secrets or more
C1_Witness ==
    \E w \in Workers :
        /\ Succeeded(w)
        /\ wk[w].key = allNamespacesKey
        /\ Cardinality(wk[w].written) >= 2

(***************************************************************************)
(* C2. A credentials secret that is not found does not fail the            *)
(* reconciliation: no pull secret is written or asked for its registry,    *)
(* the pairs of the registries whose credentials were found are all        *)
(* written, and with no credentials secret at all nothing is written and   *)
(* no error is returned.                                                   *)
(***************************************************************************)
C2_MissingCredentialsSkipped ==
    \A w \in Workers :
        Returned(w) =>
            /\ wk[w].err.msg = "create ECR authorization tokens failed" => wk[w].err.kind # "NotFound"
            /\ \A c \in wk[w].calls : c.label \notin wk[w].missing /\ c.name \notin wk[w].missing
            /\ wk[w].err = nil =>
                  \A N \in ListItems(w), k \in wk[w].found :
                      (N.Phase = NamespaceActive /\ HasTrueLabel(N, k)) =>
                          \E c \in wk[w].calls : c.ns = N.Name /\ c.name = k /\ c.err = "nil"
            /\ (wk[w].missing # {} /\ wk[w].found = {} /\ wk[w].err.kind # "Transient") =>
                  wk[w].err = nil /\ wk[w].calls = {}

\* a reconciliation has succeeded, with one registry skipped and another written
C2_Witness ==
    \E w \in Workers :
        /\ Succeeded(w)
        /\ wk[w].missing # {}
        /\ wk[w].written # {}

(***************************************************************************)
(* C3. The controller asks the accessor for a pull secret of (N, K) only   *)
(* when the label K of N, as the reconciliation read it, is "true"; a pair *)
(* whose label has never been "true" is never written.                     *)
(***************************************************************************)
C3_OnlyTrueLabels ==
    /\ \A w \in Workers : \A c \in wk[w].calls :
          \E N \in ReadAs(w, c.ns) : c.label \in DOMAIN N.Labels /\ N.Labels[c.label] = "true"
    /\ k8sStats.createdNamespaceSecretKeys \subseteq hist.everTrue
    /\ \A p \in Pairs : SecretsCounter[p] > 0 => p \in hist.everTrue

\* a sweep has written a secret and has left alone an active namespace whose label
\* is "false", for a registry whose credentials it found
C3_Witness ==
    \E w \in Workers :
        /\ Succeeded(w)
        /\ wk[w].written # {}
        /\ \E N \in ListItems(w), k \in wk[w].found :
              /\ N.Phase = NamespaceActive
              /\ k \in DOMAIN N.Labels
              /\ N.Labels[k] = "false"

(***************************************************************************)
(* C4. A reconciliation asks for no pull secret in a namespace that it     *)
(* read with a phase other than Active.                                    *)
(***************************************************************************)
C4_OnlyActiveNamespaces ==
    \A w \in Workers : \A c \in wk[w].calls :
        \A N \in ReadAs(w, c.ns) : N.Phase = NamespaceActive

\* a sweep has returned that read a terminating namespace with a "true" label of a
\* registry whose credentials are there, next to an active namespace
C4_Witness ==
    \E w \in Workers :
        /\ Returned(w)
        /\ wk[w].key = allNamespacesKey
        /\ wk[w].nss # <<>>
        /\ \E N \in ListItems(w), k \in RegistryKeys :
              /\ N.Phase # NamespaceActive
              /\ HasTrueLabel(N, k)
              /\ HasCredentials(k)

(***************************************************************************)
(* C5. Once the Added event of each seeded namespace has been processed    *)
(* once, with no tick and no disturbance, the accessor has been asked to   *)
(* write exactly the pairs (N, K) with N Active, K a registry label of N   *)
(* set to "true" and the credentials secret of K in the host namespace,    *)
(* each once: the host namespace is a namespace like the others, and a     *)
(* host secret named K without the prefix is no credentials secret.        *)
(***************************************************************************)
InitialDone ==
    /\ hist.added = Len(SeedList)
    /\ \A key \in QueueKeys : hist.renewed[key] = IF key \in SeedNames THEN 1 ELSE 0
    /\ hist.ticks = 0
    /\ Disturbances = 0
    /\ Quiet

C5_InitialWrites ==
    InitialDone =>
        /\ TotalSecretsCreated = Cardinality(EligiblePairs)
        /\ k8sStats.createdNamespaceSecretKeys = EligiblePairs

\* the initial reconciliation is done, with a pull secret written in the host
\* namespace and three in all
C5_Witness ==
    /\ InitialDone
    /\ <<HostNamespace, ecr1>> \in k8sStats.createdNamespaceSecretKeys
    /\ TotalSecretsCreated = 3

(***************************************************************************)
(* C6. No step of the controller removes a pull secret: but for the        *)
(* deletion of a namespace by its owner, the set of (namespace, name) of   *)
(* the pull secrets only grows; and a reconciliation of a namespace that   *)
(* it read without any registry label asks the accessor for nothing.       *)
(***************************************************************************)
C6_NeverDeletes ==
    /\ [][hist'.deleted = hist.deleted => PullSecretKeys \subseteq PullSecretKeys']_vars
    /\ [](\A w \in Workers :
            (wk[w].key \in NsNames /\ \A N \in ListItems(w) : ~\E k \in DOMAIN N.Labels : MatchString(k))
                => wk[w].calls = {})

\* the reconciliation of ns-1, read with no label after an update, has returned and
\* the pull secret written before is still in ns-1
C6_Witness ==
    \E w \in Workers :
        /\ Returned(w)
        /\ wk[w].key = ns1
        /\ \E N \in ListItems(w) : N.Labels = NoLabels /\ N.ResourceVersion > 1
        /\ \E p \in PullSecretKeys : p[1] = ns1

(***************************************************************************)
(* C7. The name of every pull secret the controller asks for is the label  *)
(* key it is written for, and the credentials secret read for a label key  *)
(* is the one named prefix-key in the host namespace.                      *)
(***************************************************************************)
C7_NameIsLabelKey ==
    /\ \A w \in Workers :
          /\ \A c \in wk[w].calls : c.name = c.label
          /\ \A r \in wk[w].credsRead :
                r.ns = "ci-cd" /\ r.name = "eatr-aws-credentials" \o "-" \o r.label
    /\ \A key \in k8sStats.createdNamespaceSecretKeys : key[2] \in RegistryKeys
    /\ \A p \in PullSecretKeys : p[2] \in RegistryKeys

\* a pull secret has been written for a label key that the endpoint of its token
\* does not spell
C7_Witness ==
    \E w \in Workers : \E x \in wk[w].written :
        /\ x.name = ecr2
        /\ wk[w].authTokenData[ecr2].ProxyEndpoint # "https://" \o ecr2

(***************************************************************************)
(* C8. At most one reconciliation is in flight at any time: one goroutine  *)
(* at most is between Queue.Get and Queue.Done, and the keys in flight are *)
(* the key it holds.                                                       *)
(***************************************************************************)
InFlight == {w \in Workers : wk[w].pc \in {"getNamespacesToProcess", "createECRAuthTokenData",
                                            "createNamespaceSecret", "returned"}}

C8_OneReconciliation ==
    /\ Cardinality(InFlight) <= 1
    /\ Queue.processing = {wk[w].key : w \in InFlight}

\* a reconciliation is writing secrets while another key waits in the queue
C8_Witness ==
    /\ \E w \in Workers : wk[w].pc = "createNamespaceSecret" /\ wk[w].written # {}
    /\ Queue.queue # <<>>

(***************************************************************************)
(* C9. A step calls Queue.Add with the name of a namespace exactly when it *)
(* is an Added event of that namespace or an Updated event whose resource  *)
(* version has changed; an Updated event with equal resource versions      *)
(* leaves the queue as it is.                                              *)
(***************************************************************************)
AddedStep(n) ==
    \/ hist'.added = hist.added + 1 /\ n = SeedList[hist.added + 1]
    \/ n \in hist'.created \ hist.created

VersionStep(n) ==
    /\ NamespaceExists(namespaces, n)
    /\ NamespaceExists(namespaces', n)
    /\ NamespaceNamed(namespaces, n).ResourceVersion # NamespaceNamed(namespaces', n).ResourceVersion

C9_EnqueueOnVersionChange ==
    [][\A n \in NsNames :
          /\ hist'.addCalls[n] - hist.addCalls[n] = IF AddedStep(n) \/ VersionStep(n) THEN 1 ELSE 0
          /\ (n \in Queue'.dirty /\ n \notin Queue.dirty) => (AddedStep(n) \/ VersionStep(n))
          /\ ((AddedStep(n) \/ VersionStep(n)) /\ ~Queue.shuttingDown) => n \in Queue'.dirty
          /\ (wk' = wk /\ hist' = hist) => Queue'.queue = Queue.queue]_vars

\* a namespace has been enqueued for its Added event and again for an update that
\* changed its resource version
C9_Witness ==
    \E i \in DOMAIN namespaces :
        /\ namespaces[i].ResourceVersion = 2
        /\ hist.addCalls[namespaces[i].Name] = 2

(***************************************************************************)
(* C10. When a namespace is created after the start and its Added event    *)
(* has been processed, next to those of the seeded namespaces, with no     *)
(* tick and no other disturbance, each pair the cluster asks a pull secret *)
(* for has been written once and no other pair has been written: the new   *)
(* namespace adds one write for its label when the credentials secret is   *)
(* there, none when it is not, and the other namespaces are not written    *)
(* again.                                                                  *)
(***************************************************************************)
LateDone ==
    /\ hist.added = Len(SeedList)
    /\ hist.created = {ns2}
    /\ hist.env = 1
    /\ hist.faults = 0
    /\ hist.ticks = 0
    /\ \A key \in QueueKeys : hist.renewed[key] = IF key \in NsNames THEN 1 ELSE 0
    /\ Quiet

C11_EventRenewsAll ==
    \A w \in Workers :
        (Succeeded(w) /\ wk[w].key \in NsNames /\ Disturbances = 0 /\ hist.ticks = 0) =>
            \A p \in EligiblePairs :
                \E x \in wk[w].written : x.ns = p[1] /\ x.label = p[2]

(***************************************************************************)
(* renewECRImagePullSecrets as one function of the cluster: what a call    *)
(* that nothing interleaves with does to the secrets, which pairs it       *)
(* writes and what it returns. calls is the number of tokens the registry  *)
(* has issued, which decides the tokens it answers with.                   *)
(***************************************************************************)
\* the (namespace, label) pairs the loop calls createNamespaceSecret for, from the
\* i-th namespace on
RECURSIVE PairsToWrite(_, _, _)
PairsToWrite(nss, authTokenData, i) ==
    IF i > Len(nss) THEN <<>>
    ELSE LET Mine(k) == k \in ToWrite(nss[i], authTokenData)
             ks == SelectSeq(SortedKeys, Mine)
         IN [j \in 1..Len(ks) |-> <<nss[i].Name, ks[j]>>]
                \o PairsToWrite(nss, authTokenData, i + 1)

\* the loop over the pairs: it stops at the first error
RECURSIVE renewWrites(_, _, _, _, _)
renewWrites(nsl, pairs, authTokenData, i, acc) ==
    IF i > Len(pairs) THEN acc
    ELSE LET r == createNamespaceSecret(acc.secrets, nsl, pairs[i][1], pairs[i][2],
                                        authTokenData[pairs[i][2]], {})
         IN IF r.err # nil
            THEN [acc EXCEPT !.err = Wrap(r.err, "create namespace secret failed")]
            ELSE renewWrites(nsl, pairs, authTokenData, i + 1,
                    [acc EXCEPT !.secrets = r.secrets,
                                !.written = Append(@, pairs[i]),
                                !.ops = Append(@, r.op)])

\* renewECRImagePullSecrets, with its early returns
renewECRImagePullSecrets(store, nsl, key, calls) ==
    LET none == [secrets |-> store, written |-> <<>>, ops |-> <<>>, err |-> nil,
                 renewals |-> 0, calls |-> calls]
        r1 == getNamespacesToProcess(nsl, key, FALSE)
        r2 == createECRAuthTokenData(store, getDistinctSecretNames(r1.nss), calls, <<"", "none">>)
        r3 == renewWrites(nsl, PairsToWrite(r1.nss, r2.res, 1), r2.res, 1, none)
    IN IF r1.err # nil THEN [none EXCEPT !.err = Wrap(r1.err, "get namespaces to process failed")]
       ELSE IF Len(r1.nss) = 0 THEN none
       ELSE IF r2.err # nil
       THEN [none EXCEPT !.err = Wrap(r2.err, "create ECR authorization tokens failed")]
       ELSE IF DOMAIN r2.res = {} THEN [none EXCEPT !.calls = r2.calls]
       ELSE [r3 EXCEPT !.calls = r2.calls,
                       !.renewals = IF r3.err = nil /\ key = allNamespacesKey THEN 1 ELSE 0]

(***************************************************************************)
(* The sweep of all namespaces, run again and again on a cluster that      *)
(* nobody else changes and against a registry that answers each run as it  *)
(* answered the run before.                                                *)
(***************************************************************************)
RenewHostLabels == {NoLabels, LabelsEcr1True, LabelsEcr1False, LabelsBothTrue}
RenewNs1Labels == {LabelsEcr1True, LabelsBothTrue, LabelsMixed, LabelsEcr2True}

\* a pull secret left by an earlier run of the controller
StalePullSecret(n, k) ==
    [Namespace |-> n,
     Name |-> k,
     Type |-> SecretTypeDockerConfigJson,
     Data |-> (DockerConfigJsonKey :> secretDataTemplate("https://" \o k, "token-0"))]

\* the controller has started its worker, over any of the clusters
InitRenew ==
    \E host \in RenewHostLabels, one \in RenewNs1Labels,
       phase \in {NamespaceActive, NamespaceTerminating},
       creds \in SUBSET RegistryKeys,
       stale \in SUBSET {<<HostNamespace, ecr1>>, <<ns1, ecr1>>} :
        /\ namespaces = << Namespace(HostNamespace, host, NamespaceActive, 1),
                           Namespace(ns1, one, phase, 1) >>
        /\ secrets = {CredentialsSecret(k) : k \in creds}
                     \cup {StalePullSecret(p[1], p[2]) : p \in stale}
        /\ k8sStats = [newlyCreatedSecretCount |-> 0, updatedSecretCount |-> 0,
                       createdNamespaceSecretKeys |-> {}]
        /\ ecrCalls = 0
        /\ Queue = [queue |-> <<>>, dirty |-> {}, processing |-> {}, shuttingDown |-> FALSE]
        /\ stop = FALSE
        /\ HasSynced = TRUE
        /\ run = "select"
        /\ wk = [w \in Workers |-> IF w \in ConsumerLoops THEN IdleWorker("Get")
                                   ELSE IdleWorker("notStarted")]
        /\ SecretsCounter = [p \in Pairs |-> 0]
        /\ SecretRenewalsCounter = 0
        /\ hist = [ticks |-> 0, env |-> 0, faults |-> 0,
                   added |-> 0, addCalls |-> [k \in QueueKeys |-> 0],
                   renewed |-> [k \in QueueKeys |-> 0],
                   everTrue |-> TrueLabels(<< Namespace(HostNamespace, host, NamespaceActive, 1),
                                              Namespace(ns1, one, phase, 1) >>),
                   created |-> {}, deleted |-> {}, warned |-> {}]

\* how often pair p is in the sequence of written pairs
TimesWritten(written, p) == Cardinality({i \in DOMAIN written : written[i] = p})
TimesOp(ops, op) == Cardinality({i \in DOMAIN ops : ops[i] = op})

\* the worker handles the key of all namespaces, from Queue.Get to Queue.Done
RenewAllNamespaces ==
    /\ hist.renewed[allNamespacesKey] < MaxRenews
    /\ LET r == renewECRImagePullSecrets(secrets, namespaces, allNamespacesKey, ecrCalls)
       IN /\ secrets' = r.secrets
          /\ SecretsCounter' = [p \in Pairs |-> SecretsCounter[p] + TimesWritten(r.written, p)]
          /\ SecretRenewalsCounter' = SecretRenewalsCounter + r.renewals
          /\ k8sStats' = [newlyCreatedSecretCount |->
                              k8sStats.newlyCreatedSecretCount + TimesOp(r.ops, "CreateSecret"),
                          updatedSecretCount |->
                              k8sStats.updatedSecretCount + TimesOp(r.ops, "UpdateSecret"),
                          createdNamespaceSecretKeys |->
                              k8sStats.createdNamespaceSecretKeys \cup Range(r.written)]
          /\ hist' = [hist EXCEPT !.renewed = [@ EXCEPT ![allNamespacesKey] = @ + 1]]
    /\ UNCHANGED <<namespaces, ecrCalls, Queue, stop, HasSynced, run, wk>>

NextRenew == RenewAllNamespaces

SpecRenew == InitRenew /\ [][NextRenew]_vars

(***************************************************************************)
(* C12. A sweep of all namespaces that follows another one, on a cluster   *)
(* and against token responses that have not changed, leaves the secrets   *)
(* (names and payloads) as the sweep before left them, and raises the      *)
(* counter of each pair by what the sweep before raised it.                *)
(***************************************************************************)
C12_Idempotent ==
    [][(/\ hist.renewed[allNamespacesKey] >= 1
        /\ hist'.renewed[allNamespacesKey] = hist.renewed[allNamespacesKey] + 1
        /\ namespaces' = namespaces
        /\ ecrCalls' = ecrCalls)
       => /\ secrets' = secrets
          /\ \A p \in Pairs :
                SecretsCounter'[p] * hist.renewed[allNamespacesKey]
                    = SecretsCounter[p] * hist'.renewed[allNamespacesKey]]_vars

\* two sweeps have run and each has written the secrets of both namespaces
C12_Witness ==
    /\ hist.renewed[allNamespacesKey] = 2
    /\ SecretsCounter[<<HostNamespace, ecr1>>] = 2
    /\ SecretsCounter[<<ns1, ecr2>>] = 2
    /\ \E s \in secrets : s.Namespace = ns1 /\ s.Name = ecr2

(***************************************************************************)
(* C13. Every step in which renewECRImagePullSecrets returns success for   *)
(* the key of all namespaces raises secret_renewals_total by exactly one,  *)
(* however many pairs it wrote (none included), and a return for the key   *)
(* of one namespace leaves the counter as it is.                           *)
(***************************************************************************)
C13_SweepCounted ==
    [][\A w \in Workers :
          (~Returned(w) /\ wk'[w].pc = "returned" /\ wk'[w].err = nil) =>
              SecretRenewalsCounter' = SecretRenewalsCounter
                  + (IF wk'[w].key = allNamespacesKey THEN 1 ELSE 0)]_vars

(***************************************************************************)
(* C14. secrets_created_total rises by one for the pair of each successful *)
(* create or update of a pull secret and by nothing else, so that its sum  *)
(* is the number of writes the accessor has performed; and a sweep of all  *)
(* namespaces that a tick starts after the initial reconciliations, on a   *)
(* cluster nobody has changed, performs one update for each pair the       *)
(* cluster asks a pull secret for, and no create.                          *)
(***************************************************************************)
RECURSIVE CounterSum(_, _)
CounterSum(counter, S) ==
    IF S = {} THEN 0
    ELSE LET p == CHOOSE x \in S : TRUE IN counter[p] + CounterSum(counter, S \ {p})

\* this step has put a pull secret for pair p into the store, new or changed
Wrote(p) ==
    \E s \in secrets' :
        /\ s.Namespace = p[1]
        /\ s.Name = p[2]
        /\ s.Type = SecretTypeDockerConfigJson
        /\ s \notin secrets

\* the sweep of a tick has returned, after each seeded namespace's own reconciliation
SweepAfterInitial(w) ==
    /\ Succeeded(w)
    /\ wk[w].key = allNamespacesKey
    /\ \A n \in SeedNames : hist.renewed[n] = 1
    /\ Disturbances = 0

C14_CounterCountsWrites ==
    /\ [][\A p \in Pairs : SecretsCounter'[p] - SecretsCounter[p] = IF Wrote(p) THEN 1 ELSE 0]_vars
    /\ [](CounterSum(SecretsCounter, Pairs) = TotalSecretsCreated)
    /\ [](\A w \in Workers :
            SweepAfterInitial(w) =>
                /\ \A c \in wk[w].calls : c.op = "UpdateSecret" /\ c.err = "nil"
                /\ {<<c.ns, c.name>> : c \in wk[w].calls} = EligiblePairs
                /\ Cardinality(wk[w].calls) = Cardinality(EligiblePairs)
                /\ CounterSum(SecretsCounter, Pairs)
                      = (hist.renewed[allNamespacesKey] + 2) * Cardinality(EligiblePairs))

\* the sweep of a tick has updated the three pull secrets the initial
\* reconciliations had written
C14_Witness ==
    \E w \in Workers :
        /\ SweepAfterInitial(w)
        /\ Cardinality(wk[w].calls) = 3
        /\ k8sStats.updatedSecretCount >= 3
        /\ CounterSum(SecretsCounter, Pairs) = 6

(***************************************************************************)
(* The controller under the scheduling Go gives it: a goroutine that can   *)
(* take a step takes it, and every call to the orchestrator API and to the *)
(* registry returns. The ticks, the events and stop owe nothing.           *)
(***************************************************************************)
WorkerStep ==
    \E w \in Workers :
        \/ WorkerGet(w)
        \/ WorkerQuit(w)
        \/ RenewGetNamespaces(w)
        \/ RenewCreateTokens(w)
        \/ RenewCreateSecret(w)
        \/ WorkerDone(w)

RunStep == RunCachesSynced \/ RunSyncStopped \/ RunStop

\* the seeded cluster that holds the credentials secret of the first registry only
InitFair == Init /\ secrets = {CredentialsSecret(ecr1)}

SpecFair == InitFair /\ [][Next]_vars /\ WF_vars(WorkerStep) /\ WF_vars(RunStep)

(***************************************************************************)
(* C15. A tick that fires while Run is in its loop calls Queue.Add with    *)
(* the key of all namespaces, which is then pending; and a pending key of  *)
(* all namespaces leads to a sweep that starts after it and that returns.  *)
(***************************************************************************)
SweepAt(pc) == \E w \in Workers : wk[w].key = allNamespacesKey /\ wk[w].pc = pc

C15_TickLeadsToSweep ==
    /\ [][hist'.ticks = hist.ticks + 1 =>
            /\ run = "select"
            /\ hist'.addCalls[allNamespacesKey] = hist.addCalls[allNamespacesKey] + 1
            /\ allNamespacesKey \in Queue'.dirty]_vars
    /\ (allNamespacesKey \in Queue.dirty) ~> SweepAt("getNamespacesToProcess")
    /\ SweepAt("getNamespacesToProcess") ~> SweepAt("returned")

\* the sweep a tick asked for has returned, after stop was closed and the queue
\* shut down
C15_Witness ==
    /\ SweepAt("returned")
    /\ hist.ticks = 1
    /\ Queue.shuttingDown

(***************************************************************************)
(* C16. Once stop is closed no further key of all namespaces is enqueued:  *)
(* no step taken with stop closed calls Queue.Add for it or makes it       *)
(* pending, also when a tick is due together with stop.                    *)
(***************************************************************************)
C16_NoSentinelAfterStop ==
    [][stop =>
          /\ hist'.addCalls[allNamespacesKey] = hist.addCalls[allNamespacesKey]
          /\ (allNamespacesKey \in Queue'.dirty => allNamespacesKey \in Queue.dirty)]_vars

(***************************************************************************)
(* C17. Once stop is closed, Run shuts the queue down and returns, and the *)
(* queue consumer loop, if Run started it, gets quit from Queue.Get and    *)
(* returns, after the keys still in the queue: neither waits forever.      *)
(***************************************************************************)
C17_StopTerminates ==
    /\ stop ~> (run = "returned" /\ Queue.shuttingDown)
    /\ stop ~> (\A w \in Workers : wk[w].pc \in {"notStarted", "exited"})
    /\ [](\A w \in Workers : wk[w].pc = "exited" =>
             Queue.shuttingDown /\ Queue.queue = <<>> /\ run = "returned")

\* Run has returned and the consumer loop has returned after it had handled a key
C17_Witness ==
    /\ stop
    /\ run = "returned"
    /\ \E w \in Workers : wk[w].pc = "exited"
    /\ \E key \in QueueKeys : hist.renewed[key] >= 1

(***************************************************************************)
(* C18. Once stop is closed and the controller has stopped (Run has        *)
(* returned, the consumer loop is not running), the Added and Updated      *)
(* events of namespaces, whatever their labels and resource versions, put  *)
(* nothing into the queue and no secret is created or updated any more:    *)
(* the number of writes stays what it is.                                  *)
(***************************************************************************)
Stopped ==
    /\ stop
    /\ run = "returned"
    /\ \A w \in Workers : wk[w].pc \in {"notStarted", "exited"}

C18_NoWritesAfterStop ==
    [][Stopped =>
          /\ Stopped'
          /\ Queue' = Queue
          /\ TotalSecretsCreated' = TotalSecretsCreated
          /\ k8sStats' = k8sStats
          /\ SecretsCounter' = SecretsCounter
          /\ {s \in secrets' : s.Type = SecretTypeDockerConfigJson}
                \subseteq {s \in secrets : s.Type = SecretTypeDockerConfigJson}]_vars

\* the controller has stopped after it had written secrets, and a namespace created
\* since, labelled "true" for a registry with credentials, has no pull secret
C18_Witness ==
    /\ Stopped
    /\ hist.faults = 0
    /\ TotalSecretsCreated >= 1
    /\ hist.addCalls[ns2] = 1
    /\ <<ns2, ecr2>> \in EligiblePairs \ PullSecretKeys

(***************************************************************************)
(* C19. A call to the orchestrator API or to the registry token client     *)
(* that a reconciliation is in when stop is closed is cancelled: the step  *)
(* that ends such a call with stop closed ends the reconciliation with a   *)
(* cancellation error and writes nothing.                                  *)
(***************************************************************************)
InCall(w) == wk[w].pc \in {"getNamespacesToProcess", "createECRAuthTokenData",
                           "createNamespaceSecret"}

C19_InFlightCancelled ==
    [][\A w \in Workers :
          (stop /\ InCall(w) /\ wk'[w] # wk[w]) =>
              /\ wk'[w].pc = "returned"
              /\ wk'[w].err.kind = "Canceled"
              /\ secrets' = secrets
              /\ ecrCalls' = ecrCalls]_vars

(***************************************************************************)
(* C20. Run starts the consumer loop and the ticker only once HasSynced is *)
(* true: before that no reconciliation has run, no key has been taken from *)
(* the queue and the key of all namespaces has not been added; and when    *)
(* stop ends the wait for the cache, Run returns without starting the      *)
(* consumer loop, and no reconciliation runs ever after.                   *)
(***************************************************************************)
NothingReconciled ==
    /\ \A w \in Workers : wk[w].pc = "notStarted"
    /\ \A key \in QueueKeys : hist.renewed[key] = 0
    /\ Queue.processing = {}
    /\ TotalSecretsCreated = 0
    /\ SecretRenewalsCounter = 0
    /\ hist.ticks = 0
    /\ hist.addCalls[allNamespacesKey] = 0

C21_DoneOnceNoRetry ==
    /\ [][\A w \in Workers :
            /\ (wk'[w].pc = "getNamespacesToProcess" /\ wk[w].pc # "getNamespacesToProcess") =>
                  /\ wk[w].pc = "Get"
                  /\ wk'[w].key = Head(Queue.queue)
                  /\ wk'[w].key \in Queue'.processing
            /\ (Returned(w) /\ wk'[w] # wk[w]) =>
                  /\ wk'[w].pc = "Get"
                  /\ wk[w].key \notin Queue'.processing
                  /\ hist'.renewed[wk[w].key] = hist.renewed[wk[w].key] + 1
                  /\ hist'.addCalls = hist.addCalls
                  /\ wk[w].err # nil => wk[w].key \in hist'.warned
                  /\ wk[w].key \notin Queue.dirty =>
                        (wk[w].key \notin Range(Queue'.queue) /\ wk[w].key \notin Queue'.dirty)]_vars
    /\ [](\A key \in QueueKeys :
            hist.renewed[key] + (IF key \in Queue.processing THEN 1 ELSE 0)
                              + (IF key \in Queue.dirty THEN 1 ELSE 0) <= hist.addCalls[key])
    /\ \A key \in QueueKeys :
          (key \in Range(Queue.queue) /\ \E w \in Workers : wk[w].pc \notin {"notStarted", "exited"})
              ~> (\E w \in Workers : wk[w].key = key /\ Returned(w))

\* the reconciliation of one key has failed and was logged, and the reconciliation
\* of the key after it has written a secret
C21_Witness ==
    /\ hist.warned # {}
    /\ \E w \in Workers :
          /\ Succeeded(w)
          /\ wk[w].key \notin hist.warned
          /\ wk[w].written # {}

(***************************************************************************)
(* C22. The first error other than not-found that a reconciliation gets    *)
(* from the accessor or from the registry (reading a credentials secret,   *)
(* fetching a token, get, create or update of a pull secret) ends it: the  *)
(* step in which a call fails returns the error, no create or update is    *)
(* issued after the failed call and the store is left as it was, with the  *)
(* pull secrets written before.                                            *)
(***************************************************************************)
C22_FirstErrorAborts ==
    [][\A w \in Workers :
          (InCall(w) /\ wk'[w] # wk[w] /\ hist'.faults > hist.faults) =>
              /\ wk'[w].pc = "returned"
              /\ wk'[w].err # nil
              /\ \A c \in wk'[w].calls \ wk[w].calls :
                    c.got \notin {"nil", "NotFound"} => c.op = "none"
              /\ secrets' = secrets
              /\ k8sStats' = k8sStats]_vars

(***************************************************************************)
(* C23. createNamespaceSecret first gets the secret: found, it updates and *)
(* does not create; not found, it creates and does not update; on any      *)
(* other error of the get it issues neither. Called twice for a secret     *)
(* that is not there, it creates it and then updates it.                   *)
(***************************************************************************)
TokenOf(k) == GetAuthToken("eu-west-1", "AKIA-123456789012", "s3cr3t-1", 1)

C23_GetDecidesWrite ==
    /\ \A w \in Workers : \A c \in wk[w].calls :
          /\ c.got = "nil" => c.op = "UpdateSecret"
          /\ c.got = "NotFound" => c.op = "CreateSecret"
          /\ c.got \notin {"nil", "NotFound"} => c.op = "none"
    /\ \A p \in Pairs :
          (NamespaceExists(namespaces, p[1]) /\ SecretsNamed(secrets, p[1], p[2]) = {}) =>
              LET r1 == createNamespaceSecret(secrets, namespaces, p[1], p[2], TokenOf(p[2]), {})
                  r2 == createNamespaceSecret(r1.secrets, namespaces, p[1], p[2], TokenOf(p[2]), {})
              IN /\ r1.op = "CreateSecret" /\ r1.err = nil
                 /\ r2.op = "UpdateSecret" /\ r2.err = nil

(***************************************************************************)
(* The first reconciliations: the worker handles the keys of the Added     *)
(* events of the namespaces the cluster has at start, one after the other, *)
(* on a cluster that nobody else changes and against a registry that       *)
(* answers each of them alike.                                             *)
(***************************************************************************)
\* renewECRImagePullSecrets for the i-th key and those after it; the loop goes on
\* after a reconciliation that failed
RECURSIVE renewKeys(_, _, _, _, _)
renewKeys(nsl, keys, calls, i, acc) ==
    IF i > Len(keys) THEN acc
    ELSE LET r == renewECRImagePullSecrets(acc.secrets, nsl, keys[i], calls)
         IN renewKeys(nsl, keys, calls, i + 1,
                [secrets |-> r.secrets,
                 written |-> acc.written \o r.written,
                 ops |-> acc.ops \o r.ops,
                 failed |-> IF r.err # nil THEN acc.failed \cup {keys[i]} ELSE acc.failed])

\* the Added events of the seeded namespaces are delivered and the worker handles
\* their keys, from the first Queue.Get to the last Queue.Done
RenewSeededNamespaces ==
    /\ \A n \in SeedNames : hist.renewed[n] = 0
    /\ LET r == renewKeys(namespaces, SeedList, ecrCalls, 1,
                          [secrets |-> secrets, written |-> <<>>, ops |-> <<>>, failed |-> {}])
       IN /\ secrets' = r.secrets
          /\ SecretsCounter' = [p \in Pairs |-> SecretsCounter[p] + TimesWritten(r.written, p)]
          /\ k8sStats' = [newlyCreatedSecretCount |->
                              k8sStats.newlyCreatedSecretCount + TimesOp(r.ops, "CreateSecret"),
                          updatedSecretCount |->
                              k8sStats.updatedSecretCount + TimesOp(r.ops, "UpdateSecret"),
                          createdNamespaceSecretKeys |->
                              k8sStats.createdNamespaceSecretKeys \cup Range(r.written)]
          /\ hist' = [hist EXCEPT
                         !.added = Len(SeedList),
                         !.addCalls = [k \in QueueKeys |-> IF k \in SeedNames THEN @[k] + 1 ELSE @[k]],
                         !.renewed = [k \in QueueKeys |-> IF k \in SeedNames THEN @[k] + 1 ELSE @[k]],
                         !.warned = @ \cup r.failed]
    /\ UNCHANGED <<namespaces, ecrCalls, Queue, stop, HasSynced, run, wk, SecretRenewalsCounter>>

NextFirst == RenewSeededNamespaces

SpecFirst == InitRenew /\ [][NextFirst]_vars

(***************************************************************************)
(* C24. Handling the key of each namespace the cluster has, one after the  *)
(* other, leaves the pull secrets, names and payloads, that one sweep of   *)
(* all namespaces leaves when it starts from the same cluster and gets the *)
(* same answers from the registry, with no failure in either.              *)
(***************************************************************************)
DockerSecrets(store) == {s \in store : s.Type = SecretTypeDockerConfigJson}

TimesQueued(key) == Cardinality({i \in DOMAIN Queue.queue : Queue.queue[i] = key})
AddCalled(key) == hist'.addCalls[key] = hist.addCalls[key] + 1

C25_PendingInFlightDone ==
    /\ [](\A key \in QueueKeys :
            /\ TimesQueued(key) <= 1
            /\ key \in Range(Queue.queue) => (key \in Queue.dirty /\ key \notin Queue.processing)
            /\ key \in Queue.dirty => (key \in Range(Queue.queue) \/ key \in Queue.processing)
            /\ Cardinality({w \in Workers : wk[w].key = key /\ wk[w].pc # "Get"}) <= 1)
    /\ [][\A key \in QueueKeys :
            /\ (AddCalled(key) /\ key \in Range(Queue.queue)) => Queue' = Queue
            /\ (AddCalled(key) /\ key \in Queue.processing /\ ~Queue.shuttingDown) =>
                  /\ key \in Queue'.dirty
                  /\ Queue'.queue = Queue.queue
                  /\ Queue'.processing = Queue.processing
                  /\ wk' = wk
            /\ (key \in Queue.processing /\ key \notin Queue'.processing) =>
                  /\ (key \in Queue.dirty) <=> (key \in Range(Queue'.queue))
                  /\ Queue'.dirty = Queue.dirty]_vars
    /\ \A key \in QueueKeys :
          (key \in Queue.processing /\ key \in Queue.dirty)
              ~> (key \in Queue.processing /\ key \notin Queue.dirty /\ hist.renewed[key] >= 1)

\* a namespace has been updated while its key was being processed: the key has come
\* back into the queue after Done and is reconciled a second time
C25_Witness ==
    \E w \in Workers :
        /\ wk[w].key \in NsNames
        /\ wk[w].pc = "getNamespacesToProcess"
        /\ hist.renewed[wk[w].key] = 1
        /\ hist.addCalls[wk[w].key] = 2
        /\ \E N \in Range(namespaces) : N.Name = wk[w].key /\ N.ResourceVersion = 2

(***************************************************************************)
(* C26. The keys are reconciled in the order in which they came to wait in *)
(* the queue, the keys of events and the key of the ticks alike: a key     *)
(* joins the queue at its tail, the keys that wait keep their order, and   *)
(* a reconciliation starts only for the key at the head, so never for a    *)
(* key while one that came before it still waits.                          *)
(***************************************************************************)
PositionOf(q, key) == CHOOSE i \in DOMAIN q : q[i] = key

C26_Fifo ==
    [][/\ \/ Queue'.queue = Queue.queue
          \/ Queue.queue # <<>> /\ Queue'.queue = Tail(Queue.queue)
          \/ \E key \in QueueKeys \ Range(Queue.queue) : Queue'.queue = Append(Queue.queue, key)
       /\ \A A \in Range(Queue.queue), B \in Range(Queue.queue) :
             (PositionOf(Queue.queue, A) < PositionOf(Queue.queue, B)) =>
                 /\ \A w \in Workers : ~(wk[w].key # B /\ wk'[w].key = B)
                 /\ (A \in Range(Queue'.queue) /\ B \in Range(Queue'.queue)) =>
                        PositionOf(Queue'.queue, A) < PositionOf(Queue'.queue, B)
                 /\ B \in Range(Queue'.queue)
       /\ \A w \in Workers :
             (wk'[w].key # wk[w].key /\ wk'[w].key # "") =>
                 /\ Queue.queue # <<>>
                 /\ wk'[w].key = Queue.queue[1]
                 /\ wk'[w].pc = "getNamespacesToProcess"]_vars

\* while a reconciliation is in flight, the key of a tick waits at the head of the
\* queue and the key of a namespace, added after it, behind it
C26_Witness ==
    /\ \E w \in Workers : wk[w].key \in NsNames /\ wk[w].pc = "createNamespaceSecret"
    /\ Len(Queue.queue) = 2
    /\ Queue.queue[1] = allNamespacesKey
    /\ Queue.queue[2] \in NsNames

(***************************************************************************)
(* C27. The work of a reconciliation. As claimed: a reconciliation of the  *)
(* key of one namespace that succeeds has called GetNamespace once and has *)
(* not listed the namespaces, has fetched one token for each registry      *)
(* label that is "true" of the namespace, read as Active, and has made one *)
(* get and one create or update for each of these labels; and no           *)
(* reconciliation asks the registry twice for the same registry.           *)
(***************************************************************************)
NoDuplicates(seq) == \A i \in DOMAIN seq, j \in DOMAIN seq : seq[i] = seq[j] => i = j
ActiveTrueLabelsRead(w) ==
    {k \in LabelKeys : \E N \in ListItems(w) : N.Phase = NamespaceActive /\ HasTrueLabel(N, k)}

C27_ExactWork ==
    \A w \in Workers :
        /\ NoDuplicates(wk[w].asked)
        /\ (Succeeded(w) /\ wk[w].key \in NsNames) =>
              /\ wk[w].nsCalls = <<"GetNamespace">>
              /\ Range(wk[w].asked) = ActiveTrueLabelsRead(w)
              /\ {c.label : c \in wk[w].calls} = ActiveTrueLabelsRead(w)
              /\ Cardinality(wk[w].calls) = Cardinality(ActiveTrueLabelsRead(w))
              /\ \A c \in wk[w].calls : c.op \in {"CreateSecret", "UpdateSecret"}

(***************************************************************************)
(* C27, amended. A reconciliation of the key of one namespace calls        *)
(* GetNamespace once, for that namespace, and never lists the namespaces;  *)
(* it asks the registry for a token at most once for each registry label   *)
(* of the namespace that is "true", and when it succeeds exactly once for  *)
(* each of them whose credentials secret it found, the namespace being     *)
(* Active; it makes one get and one create or update for each label it has *)
(* a token for. No reconciliation, of whatever key, asks the registry      *)
(* twice for the same registry.                                            *)
(***************************************************************************)
C27_BoundedWork ==
    \A w \in Workers :
        /\ NoDuplicates(wk[w].asked)
        /\ Range(wk[w].asked) \subseteq ActiveTrueLabelsRead(w)
        /\ (wk[w].key \in NsNames /\ wk[w].pc # "getNamespacesToProcess") =>
              /\ wk[w].nsCalls = <<"GetNamespace">>
              /\ Len(wk[w].list) <= 1
              /\ \A N \in ListItems(w) : N.Name = wk[w].key
              /\ \A c \in wk[w].calls : c.ns = wk[w].key
        /\ (wk[w].key = allNamespacesKey /\ wk[w].pc # "getNamespacesToProcess") =>
              wk[w].nsCalls = <<"GetNamespaces">>
        /\ \A c \in wk[w].calls :
              /\ c.label \in Range(wk[w].asked)
              /\ c.got # "none"
              /\ c.op \in {"CreateSecret", "UpdateSecret"}
        /\ (Succeeded(w) /\ wk[w].key \in NsNames) =>
              /\ Range(wk[w].asked) = ActiveTrueLabelsRead(w) \ wk[w].missing
              /\ {c.label : c \in wk[w].calls} = Range(wk[w].asked)
              /\ Cardinality(wk[w].calls) = Len(wk[w].asked)

\* the reconciliation of ns-1 has succeeded: one GetNamespace, a token for each of
\* its two registries, two secrets written
C27_Witness ==
    \E w \in Workers :
        /\ Succeeded(w)
        /\ wk[w].key = ns1
        /\ Len(wk[w].asked) = 2
        /\ Cardinality(wk[w].calls) = 2

(***************************************************************************)
(* The controller, scheduled as above, over the seeded cluster that holds  *)
(* the credentials secrets of both registries.                             *)
(***************************************************************************)
InitFairBoth == Init /\ {CredentialsSecret(ecr1), CredentialsSecret(ecr2)} \subseteq secrets

SpecFairBoth == InitFairBoth /\ [][Next]_vars /\ WF_vars(WorkerStep) /\ WF_vars(RunStep)

(***************************************************************************)
(* C28. A namespace that is deleted after a reconciliation has read it and *)
(* before its pull secrets are written costs the reconciliation one failed *)
(* write at most: the write fails, nothing is stored in the namespace that *)
(* is gone, the reconciliation returns the error without another call,     *)
(* the consumer loop logs it, marks the key done and goes back to the      *)
(* queue, where it takes the keys that wait.                               *)
(***************************************************************************)
FailedCalls(w) == {c \in wk[w].calls : c.err # "nil"}
\* a write of reconciliation w has failed in a namespace that has been deleted
WriteToDeletedFailed(w) == \E c \in wk[w].calls : c.err # "nil" /\ c.ns \in hist.deleted

C28_DeletedNamespace ==
    /\ [](\A s \in secrets : NamespaceExists(namespaces, s.Namespace))
    /\ [](\A w \in Workers :
            /\ Cardinality(FailedCalls(w)) <= 1
            /\ FailedCalls(w) # {} => (Returned(w) /\ wk[w].err # nil)
            /\ WriteToDeletedFailed(w) =>
                  wk[w].err.msg = "create namespace secret failed")
    /\ [][\A w \in Workers : \A c \in wk'[w].calls \ wk[w].calls :
            ~NamespaceExists(namespaces, c.ns) =>
                /\ c.err # "nil"
                /\ wk'[w].pc = "returned"
                /\ secrets' = secrets
                /\ k8sStats' = k8sStats
                /\ SecretsCounter' = SecretsCounter]_vars
    /\ [][\A w \in Workers :
            (WriteToDeletedFailed(w) /\ wk'[w] # wk[w]) =>
                /\ wk'[w].pc = "Get"
                /\ wk[w].key \in hist'.warned
                /\ wk[w].key \notin Queue'.processing
                /\ secrets' = secrets]_vars
    /\ ((\E w \in Workers : WriteToDeletedFailed(w)) /\ Queue.queue # <<>>)
          ~> (hist.warned # {} /\ \E w \in Workers : wk[w].pc = "getNamespacesToProcess")

\* ns-1 was deleted after its first pull secret had been written: the write of the
\* second has failed and the reconciliation has returned, while another key waits
C28_Witness ==
    \E w \in Workers :
        /\ WriteToDeletedFailed(w)
        /\ wk[w].key = ns1
        /\ Cardinality(wk[w].written) = 1
        /\ Cardinality(wk[w].calls) = 2
        /\ Queue.queue # <<>>

(***************************************************************************)
(* C29. A successful create or update of a pull secret for label K of      *)
(* namespace N leaves, under (N, K), one secret: named K, of the type      *)
(* kubernetes.io/dockerconfigjson, with the one data key .dockerconfigjson *)
(* whose value spells the endpoint and the token of the token record, and  *)
(* with no other field; a secret that was there under that name is         *)
(* replaced by it whole, and the rest of the store is left alone.          *)
(***************************************************************************)
PullSecretOf(n, k, tok) ==
    [Namespace |-> n,
     Name |-> k,
     Type |-> "kubernetes.io/dockerconfigjson",
     Data |-> (".dockerconfigjson" :>
                 ("{ \"auths\": { \"" \o tok.ProxyEndpoint \o "\": { \"auth\": \""
                     \o tok.AuthorizationToken \o "\" } } }"))]

C29_SecretShape ==
    [][\A w \in Workers : \A c \in wk'[w].calls \ wk[w].calls :
          c.err = "nil" =>
              LET s == PullSecretOf(c.ns, c.label, wk[w].authTokenData[c.label])
              IN /\ c.name = c.label
                 /\ c.op \in {"CreateSecret", "UpdateSecret"}
                 /\ {x \in secrets' : x.Namespace = c.ns /\ x.Name = c.label} = {s}
                 /\ DOMAIN s = {"Namespace", "Name", "Type", "Data"}
                 /\ secrets' \ {s} = {x \in secrets : ~(x.Namespace = c.ns /\ x.Name = c.label)}]_vars

\* the first reconciliation of the host namespace has updated the secret that was
\* there under the name of the registry, of another type: it is a pull secret now
C29_Witness ==
    /\ \A key \in QueueKeys : hist.renewed[key] = 0
    /\ k8sStats.updatedSecretCount = 1
    /\ \E w \in Workers : wk[w].key = HostNamespace /\ Succeeded(w)
    /\ \A x \in secrets : (x.Namespace = HostNamespace /\ x.Name = ecr1) =>
                              x.Type = SecretTypeDockerConfigJson

(***************************************************************************)
(* C30. The controller only reads the namespaces and the AWS credentials   *)
(* secrets: every step but those of the cluster's users leaves the         *)
(* namespaces and the secrets named prefix-K of the host namespace as they *)
(* are, and no call of createNamespaceSecret is made under the name of a   *)
(* credentials secret, also in the host namespace when it carries the      *)
(* label of a registry and gets a pull secret named as the registry.       *)
(***************************************************************************)
CredentialsNames == {"eatr-aws-credentials" \o "-" \o k : k \in RegistryKeys}
CredentialsSecrets(store) == {s \in store : s.Namespace = "ci-cd" /\ s.Name \in CredentialsNames}

C30_ReadOnly ==
    /\ [][hist'.env = hist.env =>
            /\ namespaces' = namespaces
            /\ CredentialsSecrets(secrets') = CredentialsSecrets(secrets)]_vars
    /\ [](\A w \in Workers : \A c \in wk[w].calls : c.name \notin CredentialsNames)
    /\ [](\A key \in k8sStats.createdNamespaceSecretKeys : key[2] \notin CredentialsNames)

\* the host namespace has got its pull secret, named as the registry, next to the
\* credentials secret of that registry
C30_Witness ==
    /\ SecretsCounter[<<HostNamespace, ecr1>>] >= 1
    /\ CredentialsSecret(ecr1) \in secrets
    /\ \E s \in secrets :
          s.Namespace = HostNamespace /\ s.Name = ecr1 /\ s.Type = SecretTypeDockerConfigJson
    /\ Cardinality(CredentialsSecrets(secrets)) = 2

(***************************************************************************)
(* C31. The reconciliation of the key of a namespace works on the          *)
(* namespace as the accessor returns it when the key is processed: what it *)
(* reads is the namespace of that moment, with its phase and labels,       *)
(* whatever the namespace was when the event put the key into the queue,   *)
(* and when it succeeds the secrets it has written are those of the labels *)
(* it read as "true" (for the credentials it found), the namespace Active. *)
(***************************************************************************)
ReadNow(w) == wk[w].pc = "getNamespacesToProcess" /\ wk'[w].pc # "getNamespacesToProcess"

C31_StateAtProcessing ==
    /\ [][\A w \in Workers :
            (ReadNow(w) /\ wk[w].key \in NsNames /\ wk'[w].err = nil) =>
                /\ Range(wk'[w].list) = {N \in Range(namespaces) : N.Name = wk[w].key}
                /\ Range(wk'[w].nss) =
                      {N \in Range(namespaces) :
                          /\ N.Name = wk[w].key
                          /\ N.Phase = "Active"
                          /\ \E k \in RegistryKeys : HasTrueLabel(N, k)}]_vars
    /\ [](\A w \in Workers :
            (Succeeded(w) /\ wk[w].key \in NsNames) =>
                {x.label : x \in wk[w].written} =
                    {k \in wk[w].found : \E N \in ListItems(w) :
                                            N.Phase = "Active" /\ HasTrueLabel(N, k)})

\* ns-1 was seeded with the second registry "true" and relabelled before its key was
\* processed for the first time: the reconciliation has read the new labels and, with
\* the credentials of that registry there, has written nothing
C31_Witness ==
    \E w \in Workers :
        /\ Succeeded(w)
        /\ wk[w].key = ns1
        /\ hist.renewed[ns1] = 0
        /\ hist.addCalls[ns1] = 2
        /\ HasCredentials(ecr2)
        /\ \E N \in ListItems(w) :
              N.ResourceVersion = 2 /\ N.Phase = NamespaceActive /\ ~HasTrueLabel(N, ecr2)
        /\ wk[w].calls = {}

(***************************************************************************)
(* C32. createECRAuthTokenData over a list of names, no call of it         *)
(* failing, returns without error a map with an entry for exactly the      *)
(* names whose credentials secret <prefix>-<name> is in the host           *)
(* namespace: it reads the credentials secret of each name, asks the token *)
(* client once for each name that has one, in the order of the names, with *)
(* the region and access key held by that secret (the token's endpoint is  *)
(* of the secret's region, not of the region in the name), and leaves the  *)
(* names without a credentials secret out, without a token call for them.  *)
(***************************************************************************)
TokensNow(w) == wk[w].pc = "createECRAuthTokenData" /\ wk'[w].pc # "createECRAuthTokenData"
CredentialsOf(k) ==
    CHOOSE s \in secrets : s.Namespace = "ci-cd" /\ s.Name = "eatr-aws-credentials" \o "-" \o k

C32_TokenData ==
    [][\A w \in Workers :
        (TokensNow(w) /\ hist'.faults = hist.faults) =>
            LET names == getDistinctSecretNames(wk[w].nss)
                have == {k \in Range(names) : HasCredentials(k)}
                Has(k) == k \in have
            IN /\ wk'[w].err = nil
               /\ wk'[w].found = have
               /\ DOMAIN wk'[w].authTokenData = have
               /\ wk'[w].missing = Range(names) \ have
               /\ wk'[w].asked = SelectSeq(names, Has)
               /\ ecrCalls' = ecrCalls + Cardinality(have)
               /\ {c.name : c \in wk'[w].credsRead} =
                      {"eatr-aws-credentials" \o "-" \o k : k \in Range(names)}
               /\ \A c \in wk'[w].credsRead : c.ns = "ci-cd"
               /\ \A k \in have :
                      wk'[w].authTokenData[k].ProxyEndpoint =
                          "https://" \o AccountOf(CredentialsOf(k).Data.aws_access_key_id)
                              \o ".dkr.ecr." \o CredentialsOf(k).Data.aws_region \o ".amazonaws.com"]_vars

\* of the two names of ns-1's labels the first has no credentials secret: one token,
\* of the second, whose endpoint is in the region its credentials secret holds
C32_Witness ==
    \E w \in Workers :
        /\ wk[w].pc = "createNamespaceSecret"
        /\ wk[w].missing = {ecr1}
        /\ wk[w].asked = <<ecr2>>
        /\ DOMAIN wk[w].authTokenData = {ecr2}
        /\ wk[w].authTokenData[ecr2].ProxyEndpoint = "https://444456781111.dkr.ecr.us-west-2.amazonaws.com"
        /\ ecr2 # "444456781111.dkr.ecr.us-west-2.amazonaws.com"

(***************************************************************************)
(* C33. getDistinctSecretNames returns every label key that matches the    *)
(* registry pattern and has the value "true" on at least one of the        *)
(* namespaces it is given, each such key once, and nothing else: no key    *)
(* that does not match, no key whose value is never "true".                *)
(***************************************************************************)
C33_DistinctNames ==
    [][\A w \in Workers :
        TokensNow(w) =>
            /\ Range(wk'[w].secretNames) =
                  {k \in LabelKeys : \E i \in DOMAIN wk[w].nss : HasTrueLabel(wk[w].nss[i], k)}
            /\ NoDuplicates(wk'[w].secretNames)]_vars

\* two namespaces share the first registry, one of them has a label that is no
\* registry and the other the second registry: each registry is named once
C33_Witness ==
    \E w \in Workers :
        /\ wk[w].pc = "createNamespaceSecret"
        /\ Len(wk[w].nss) = 2
        /\ \A i \in 1..2 : HasTrueLabel(wk[w].nss[i], ecr1)
        /\ \E i \in 1..2 : "env" \in DOMAIN wk[w].nss[i].Labels
        /\ Len(wk[w].secretNames) = 2
        /\ Range(wk[w].secretNames) = {ecr1, ecr2}

(***************************************************************************)
(* C34. getNamespacesToProcess of a key returns, when the accessor does not *)
(* fail, each namespace in the scope of the key (every namespace for the   *)
(* key of all namespaces, else the namespace of that name) that is Active  *)
(* and has at least one registry label with the value "true", once, and no *)
(* other namespace: a namespace with several such labels, or with some     *)
(* registry labels "false" and one "true", is returned once.               *)
(***************************************************************************)
InScope(key, N) == key = "**all-ns**" \/ N.Name = key

C34_NamespacesToProcess ==
    [][\A w \in Workers :
        (ReadNow(w) /\ wk'[w].err = nil) =>
            /\ Range(wk'[w].nss) =
                  {N \in Range(namespaces) :
                      /\ InScope(wk[w].key, N)
                      /\ N.Phase = "Active"
                      /\ \E k \in LabelKeys : HasTrueLabel(N, k)}
            /\ NoDuplicates(wk'[w].nss)
            /\ \A i \in DOMAIN wk'[w].nss, j \in DOMAIN wk'[w].nss :
                  wk'[w].nss[i].Name = wk'[w].nss[j].Name => i = j]_vars

\* a sweep over ci-cd, whose only registry label is "false", and ns-1, Active with
\* both registries "true": ns-1 alone is returned, once
C34_Witness ==
    \E w \in Workers :
        /\ wk[w].key = allNamespacesKey
        /\ wk[w].pc = "createECRAuthTokenData"
        /\ Len(wk[w].list) = 2
        /\ \E N \in ListItems(w) : N.Name = HostNamespace /\ N.Labels = LabelsEcr1False
        /\ Len(wk[w].nss) = 1
        /\ wk[w].nss[1].Name = ns1
        /\ HasTrueLabel(wk[w].nss[1], ecr1) /\ HasTrueLabel(wk[w].nss[1], ecr2)

(***************************************************************************)
(* C35. The reconciliation of the key of a namespace that is no longer     *)
(* there gets the not-found error of GetNamespace and returns it, having   *)
(* read no credentials secret, fetched no token and written no secret;     *)
(* the consumer loop logs it, marks the key done and goes back to the      *)
(* queue.                                                                  *)
(***************************************************************************)
NamespaceGone(w) ==
    /\ Returned(w)
    /\ wk[w].err.kind = "NotFound"
    /\ wk[w].err.msg = "get namespaces to process failed"

C35_NamespaceGone ==
    /\ [][\A w \in Workers :
            (/\ ReadNow(w)
             /\ wk[w].key \in NsNames
             /\ \A N \in Range(namespaces) : N.Name # wk[w].key
             /\ hist'.faults = hist.faults) =>
                /\ NamespaceGone(w)'
                /\ wk'[w].nsCalls = <<"GetNamespace">>
                /\ secrets' = secrets
                /\ ecrCalls' = ecrCalls
                /\ k8sStats' = k8sStats]_vars
    /\ [](\A w \in Workers :
            NamespaceGone(w) =>
                /\ wk[w].credsRead = {}
                /\ wk[w].asked = <<>>
                /\ wk[w].calls = {}
                /\ wk[w].written = {})
    /\ [][\A w \in Workers :
            (NamespaceGone(w) /\ wk'[w] # wk[w]) =>
                /\ wk'[w].pc = "Get"
                /\ wk[w].key \in hist'.warned
                /\ wk[w].key \notin Queue'.processing
                /\ secrets' = secrets
                /\ ecrCalls' = ecrCalls
                /\ SecretsCounter' = SecretsCounter
                /\ SecretRenewalsCounter' = SecretRenewalsCounter]_vars

\* the key of ns-1 waited in the queue while ns-1 was deleted: its reconciliation
\* has returned the not-found error of GetNamespace
C35_Witness ==
    \E w \in Workers :
        /\ NamespaceGone(w)
        /\ wk[w].key = ns1
        /\ ns1 \in hist.deleted
        /\ \A N \in Range(namespaces) : N.Name # ns1

TokensFailed(w) ==
    Returned(w) /\ wk[w].err # nil /\ wk[w].err.msg = "create ECR authorization tokens failed"

C37_TokensBeforeWrites ==
    /\ [][\A w \in Workers :
            (wk'[w].key = wk[w].key /\ wk[w].key # "") =>
                /\ (wk'[w].credsRead # wk[w].credsRead \/ wk'[w].asked # wk[w].asked)
                      => (wk[w].calls = {} /\ wk'[w].calls = {} /\ secrets' = secrets)
                /\ wk'[w].calls # wk[w].calls
                      => (/\ wk'[w].credsRead = wk[w].credsRead
                          /\ wk'[w].asked = wk[w].asked
                          /\ ecrCalls' = ecrCalls
                          /\ wk[w].secretNames = getDistinctSecretNames(wk[w].nss)
                          /\ {c.label : c \in wk[w].credsRead} = Range(wk[w].secretNames))]_vars
    /\ [][\A w \in Workers :
            (TokensNow(w) /\ hist'.faults > hist.faults) =>
                /\ TokensFailed(w)'
                /\ wk'[w].calls = {}
                /\ secrets' = secrets
                /\ k8sStats' = k8sStats
                /\ SecretsCounter' = SecretsCounter]_vars
    /\ [](\A w \in Workers :
            TokensFailed(w) => (wk[w].calls = {} /\ wk[w].written = {}))
    /\ [][\A w \in Workers :
            (TokensFailed(w) /\ wk'[w] # wk[w]) =>
                (secrets' = secrets /\ k8sStats' = k8sStats /\ SecretsCounter' = SecretsCounter)]_vars

\* the token of the first registry was got and the fetch for the second failed: the
\* reconciliation of ns-1 has returned the error, and ns-1 has no pull secret
C37_Witness ==
    \E w \in Workers :
        /\ TokensFailed(w)
        /\ wk[w].key = ns1
        /\ wk[w].found = {ecr1}
        /\ wk[w].asked = <<ecr1, ecr2>>
        /\ \A s \in secrets : s.Namespace # ns1

(***************************************************************************)
(* C38. A sweep of all namespaces that ends with an error does not raise   *)
(* secret_renewals_total, which is raised only when a sweep that wrote     *)
(* comes to its end with success; secrets_created_total keeps what the     *)
(* writes that succeeded before the failure have added to it, one for each *)
(* such write, and gets nothing for the write that failed.                 *)
(***************************************************************************)
EndsNow(w) == ~Returned(w) /\ Returned(w)'

C38_CountersOnAbort ==
    /\ [][\A w \in Workers :
            (EndsNow(w) /\ wk'[w].err # nil) =>
                SecretRenewalsCounter' = SecretRenewalsCounter]_vars
    /\ [][SecretRenewalsCounter' # SecretRenewalsCounter =>
            /\ SecretRenewalsCounter' = SecretRenewalsCounter + 1
            /\ \E w \in Workers :
                  /\ EndsNow(w)
                  /\ wk'[w].key = "**all-ns**"
                  /\ wk'[w].err = nil
                  /\ wk'[w].written # {}]_vars
    /\ [][\A p \in Pairs : SecretsCounter'[p] >= SecretsCounter[p]]_vars
    /\ [][\A w \in Workers : \A c \in wk'[w].calls \ wk[w].calls :
            IF c.err # "nil"
            THEN SecretsCounter' = SecretsCounter
            ELSE SecretsCounter' =
                    [SecretsCounter EXCEPT ![<<c.ns, c.label>>] = @ + 1]]_vars

\* a sweep wrote the pull secret of ci-cd and failed at the write for ns-1: no
\* renewal is counted, the pair of ci-cd has its count and that of ns-1 has none
C38_Witness ==
    \E w \in Workers :
        /\ Returned(w)
        /\ wk[w].key = allNamespacesKey
        /\ wk[w].err # nil
        /\ wk[w].written = {[ns |-> HostNamespace, label |-> ecr1, name |-> ecr1]}
        /\ \E c \in wk[w].calls : c.err # "nil" /\ c.ns = ns1 /\ SecretsCounter[<<ns1, c.label>>] = 0
        /\ SecretsCounter[<<HostNamespace, ecr1>>] = 1
        /\ SecretRenewalsCounter = 0

(***************************************************************************)
(* C39. The store, which starts with at most one secret for a namespace    *)
(* and name, holds at most one for each after any sequence of              *)
(* reconciliations, whether or not the store itself refuses a second one:  *)
(* the controller never issues CreateSecret for a namespace and name whose *)
(* secret is in the store.                                                 *)
(***************************************************************************)
C39_NeverCreatesExisting ==
    /\ [](\A s \in secrets, t \in secrets :
            (s.Namespace = t.Namespace /\ s.Name = t.Name) => s = t)
    /\ [][\A w \in Workers : \A c \in wk'[w].calls \ wk[w].calls :
            c.op = "CreateSecret" =>
                \A s \in secrets : ~(s.Namespace = c.ns /\ s.Name = c.name)]_vars

(***************************************************************************)
(* C40. The events the informer delivers after newController and before    *)
(* the cache has synced, or before the consumer loop is started, are not   *)
(* lost: each puts its key into the queue, the keys stay there in their    *)
(* order as long as no consumer loop runs, and once the cache has synced   *)
(* each of them is reconciled, unless stop is closed first and Run returns *)
(* without having started the loop.                                        *)
(***************************************************************************)
NoLoopYet == \A w \in Workers : wk[w].pc = "notStarted"
IsPrefix(s, t) == Len(s) <= Len(t) /\ \A i \in DOMAIN s : s[i] = t[i]

C40_EarlyEventsKept ==
    /\ [][\A k \in NsNames :
            (NoLoopYet /\ run = "WaitForCacheSync" /\ hist'.addCalls[k] > hist.addCalls[k])
                => k \in Range(Queue'.queue)]_vars
    /\ [][NoLoopYet => IsPrefix(Queue.queue, Queue'.queue)]_vars
    /\ \A k \in NsNames :
          (k \in Range(Queue.queue) /\ NoLoopYet /\ HasSynced)
              ~> \/ \E w \in Workers : wk[w].key = k /\ Returned(w)
                 \/ (stop /\ run = "returned" /\ NoLoopYet)

\* the Added events of both seeded namespaces have come before the cache has synced
\* and before Run has started the consumer loop: both keys wait in the queue
C40_Witness ==
    /\ ~HasSynced
    /\ run = "WaitForCacheSync"
    /\ NoLoopYet
    /\ ~stop
    /\ Queue.queue = <<HostNamespace, ns1>>
    /\ hist.addCalls[HostNamespace] = 1 /\ hist.addCalls[ns1] = 1

====
